---- MODULE Spec2Model ----
(***************************************************************************)
(* Ewald summation engine of lumol (src/core/src/energy/global/ewald.rs):  *)
(* the Ewald solver, its caches (expfactors, fourier_phases, rho,          *)
(* delta_rho, previous_cell) and the SharedEwald wrapper with its lock.    *)
(*                                                                         *)
(* Numbers.  Every f64 is modelled in exact arithmetic:                    *)
(*   - lengths and positions are integers; positions are even and cell     *)
(*     lengths are 4 or 8, so that every Fourier phase                     *)
(*     Complex::polar(1, -2 pi k s) is a power of i and a Complex is a     *)
(*     pair <<re, im>> of integers (a Gaussian integer);                   *)
(*   - distances are carried as their squares (r2), |k|^2 in units of      *)
(*     (2 pi / LUnit)^2;                                                   *)
(*   - alpha is a fixed-point number with two decimals (118 is 1.18);      *)
(*   - an energy is a float class (finite, NaN, +inf, -inf) and, when      *)
(*     finite, a formal sum: integer coefficients on the transcendental    *)
(*     kernels erfc(alpha r)/r, erf(alpha r)/r, alpha/sqrt(pi) and         *)
(*     exp(-k2/(4 alpha^2))/k2/V, which are left uninterpreted.  Two       *)
(*     energies are equal in the model iff they are equal as real-number   *)
(*     expressions in these kernels.                                       *)
(* A fatal failure (panic) inside a kernel is the float class "panic",     *)
(* which every operation propagates.                                       *)
(***************************************************************************)
EXTENDS Integers, Sequences, FiniteSets, TLC

----------------------------------------------------------------------------
(* Arrays: functions on 0..n-1, indexed as in the source. *)

Len0(a) == Cardinality(DOMAIN a)

Arr(s) == [i \in 0..(Len(s) - 1) |-> s[i + 1]]

Axes == 0..2

Vec(x, y, z) == Arr(<<x, y, z>>)

Max2(a, b) == IF a >= b THEN a ELSE b

(* `let x = v; F(x)`: F applied to the value of v, v evaluated once *)
With(v, F(_)) == CHOOSE r \in {F(x) : x \in {v}} : TRUE

----------------------------------------------------------------------------
(* Formal sums of kernel terms.  A term is <<kind, alpha, a, b>>. *)

FsZero == [t \in {} |-> 0]

FsCoef(s, t) == IF t \in DOMAIN s THEN s[t] ELSE 0

FsAdd(a, b) ==
    LET D == DOMAIN a \cup DOMAIN b
    IN  [t \in {u \in D : FsCoef(a, u) + FsCoef(b, u) # 0} |->
            FsCoef(a, t) + FsCoef(b, t)]

FsNeg(a) == [t \in DOMAIN a |-> -a[t]]

FsOne(c, t) == IF c = 0 THEN FsZero ELSE [u \in {t} |-> c]

(* f64 values: class and, for a finite value, its formal sum. *)
Fin(s) == [cls |-> "fin", sum |-> s]

FZero == Fin(FsZero)

FNaN == [cls |-> "nan", sum |-> FsZero]

FPInf == [cls |-> "pinf", sum |-> FsZero]

FNInf == [cls |-> "ninf", sum |-> FsZero]

FPanic == [cls |-> "panic", sum |-> FsZero]

FTerm(c, t) == Fin(FsOne(c, t))

IsPanic(x) == x.cls = "panic"

FAdd(a, b) ==
    With(a, LAMBDA x : With(b, LAMBDA y :
    CASE x.cls = "panic" \/ y.cls = "panic" -> FPanic
      [] x.cls = "nan" \/ y.cls = "nan" -> FNaN
      [] x.cls = "fin" /\ y.cls = "fin" -> Fin(FsAdd(x.sum, y.sum))
      [] x.cls = "fin" -> y
      [] y.cls = "fin" -> x
      [] x.cls = y.cls -> x
      [] OTHER -> FNaN))

FNeg(a) ==
    CASE a.cls = "fin" -> Fin(FsNeg(a.sum))
      [] a.cls = "pinf" -> FNInf
      [] a.cls = "ninf" -> FPInf
      [] OTHER -> a

FSub(a, b) == With(a, LAMBDA x : With(b, LAMBDA y : FAdd(x, FNeg(y))))

(* x / 0.0 for a finite x whose sign is that of the integer n. *)
DivByZero(n) == IF n > 0 THEN FPInf ELSE IF n < 0 THEN FNInf ELSE FNaN

RECURSIVE FSumRange(_, _, _)
(* sum of F(i) for i in lo..hi (an accumulation loop `acc += F(i)`). *)
FSumRange(F(_), lo, hi) ==
    IF lo > hi THEN FZero
    ELSE CHOOSE r \in {FAdd(x, y) : x \in {F(lo)},
                                    y \in {FSumRange(F, lo + 1, hi)}} : TRUE

----------------------------------------------------------------------------
(* Complex numbers (types/complex.rs) on Gaussian integers. *)

CZero == <<0, 0>>

(* Complex::polar(1.0, phi) for phi = turns quarter turns *)
Polar1(turns) ==
    CASE turns % 4 = 0 -> <<1, 0>>
      [] turns % 4 = 1 -> <<0, 1>>
      [] turns % 4 = 2 -> <<-1, 0>>
      [] OTHER -> <<0, -1>>

CAdd(w, z) == <<w[1] + z[1], w[2] + z[2]>>

CSub(w, z) ==
    With(w, LAMBDA x : With(z, LAMBDA y : <<x[1] - y[1], x[2] - y[2]>>))

CMul(w, z) == <<w[1] * z[1] - w[2] * z[2], w[1] * z[2] + w[2] * z[1]>>

CScale(x, z) == <<x * z[1], x * z[2]>>

CNorm2(z) == With(z, LAMBDA y : y[1] * y[1] + y[2] * y[2])

RECURSIVE CSumRange(_, _, _)
CSumRange(F(_), lo, hi) ==
    IF lo > hi THEN CZero
    ELSE CHOOSE r \in {CAdd(x, y) : x \in {F(lo)},
                                    y \in {CSumRange(F, lo + 1, hi)}} : TRUE

----------------------------------------------------------------------------
(* Unit cells and systems: the System interface the engine consumes. *)

(* common multiple of the cell lengths: |k|^2 is in units (2 pi / LUnit)^2 *)
LUnit == 2 * 4

Ortho(lx, ly, lz) == [shape |-> "Orthorhombic", len |-> Vec(lx, ly, lz)]

Triclinic(lx, ly, lz) == [shape |-> "Triclinic", len |-> Vec(lx, ly, lz)]

InfiniteCell == [shape |-> "Infinite", len |-> Vec(0, 0, 0)]

CellVolume(cell) == cell.len[0] * cell.len[1] * cell.len[2]

(* f64::round of n / d, d > 0: halves away from zero *)
RoundDiv(n, d) ==
    IF n >= 0 THEN (2 * n + d) \div (2 * d) ELSE -((2 * (-n) + d) \div (2 * d))

(* minimum image of the vector v in an orthorhombic cell *)
WrapVector(cell, v) ==
    [a \in Axes |-> v[a] - RoundDiv(v[a], cell.len[a]) * cell.len[a]]

VSub(u, v) == [a \in Axes |-> u[a] - v[a]]

VNorm2(v) == v[0] * v[0] + v[1] * v[1] + v[2] * v[2]

(* UnitCell::distance, squared *)
CellDistance2(cell, u, v) == VNorm2(WrapVector(cell, VSub(u, v)))

(* quarter turns of the phase -2 pi s_a, s the fractional coordinates *)
PhaseTurns(cell, p, a) == ((-(4 * p[a])) \div cell.len[a]) % 4

Size(system) == Len0(system.q)

Charge(system, i) == system.q[i]

Position(system, i) == system.pos[i]

(* System::distance, squared *)
Distance2(system, i, j) ==
    CellDistance2(system.cell, system.pos[i], system.pos[j])

(* System::bond_distance: -1 when i and j are in different molecules *)
BondDistance(system, i, j) ==
    IF system.mol[i] # system.mol[j] THEN -1
    ELSE IF i = j THEN 0 ELSE 1

(* PairRestriction::information *)
Information(restriction, distance) ==
    CASE restriction = "None" -> [excluded |-> FALSE, scaling |-> 1]
      [] restriction = "InterMolecular" ->
            [excluded |-> distance # -1, scaling |-> 1]
      \* a scaling restriction: bonded pairs kept, with a scaling that is
      \* not 1 (2 stands for any such value)
      [] restriction = "Scaled" ->
            [excluded |-> FALSE, scaling |-> IF distance > 0 THEN 2 ELSE 1]
      [] OTHER -> [excluded |-> FALSE, scaling |-> 1]

(* the system with the particles of idxes moved to newpos *)
Moved(system, idxes, newpos) ==
    [system EXCEPT !.pos =
        [i \in DOMAIN system.pos |->
            IF \E idx \in DOMAIN idxes : idxes[idx] = i
            THEN newpos[CHOOSE idx \in DOMAIN idxes :
                          idxes[idx] = i /\ \A o \in DOMAIN idxes :
                              idxes[o] = i => o <= idx]
            ELSE system.pos[i]]]

----------------------------------------------------------------------------
(* struct Ewald *)

None == <<>>

Some(x) == <<x>>

Idx3(n) == (0..(n - 1)) \X (0..(n - 1)) \X (0..(n - 1))

(* Array3::zeros((n, n, n)) of f64 and of Complex *)
ZeroFactor == [c |-> 0, k2 |-> 0, alpha |-> 0]

ZerosF(n) == [ik \in Idx3(n) |-> ZeroFactor]

ZerosC(n) == [ik \in Idx3(n) |-> CZero]

(* Array3::zeros((kmax, natoms, 3)) *)
ZerosPhases(kmax, natoms) ==
    [x \in (0..(kmax - 1)) \X (0..(natoms - 1)) \X Axes |-> CZero]

(* 3 pi / (4 cutoff), two decimals *)
DefaultAlpha(cutoff) == (3 * 314) \div (4 * cutoff)

(* Ewald::new *)
New(cutoff, kmax) ==
    [alpha |-> DefaultAlpha(cutoff),
     rc |-> cutoff,
     kmax |-> kmax,
     kmax2 |-> 0,
     restriction |-> "None",
     expfactors |-> ZerosF(kmax),
     fourier_phases |-> ZerosPhases(0, 0),
     rho |-> ZerosC(kmax),
     delta_rho |-> ZerosC(kmax),
     previous_cell |-> None]

(* an f64 argument: NaN, or the fixed-point value v *)
F64(v) == [nan |-> FALSE, v |-> v]

F64NaN == [nan |-> TRUE, v |-> 0]

(* the assertion of set_alpha written `alpha >= 0.0` *)
AlphaNotNegative(alpha) == ~alpha.nan /\ alpha.v >= 0

(* alpha > 0.0: false for NaN *)
AlphaPositive(alpha) == ~alpha.nan /\ alpha.v > 0

(* Ewald::set_alpha: the new engine, ok = FALSE on the failed assertion *)
SetAlpha(ewald, alpha) ==
    IF AlphaPositive(alpha)
    THEN [ewald |-> [ewald EXCEPT !.alpha = alpha.v], ok |-> TRUE]
    ELSE [ewald |-> ewald, ok |-> FALSE]

(* |k|^2 of the reciprocal vector ikx b1 + iky b2 + ikz b3 *)
K2(cell, ik) ==
    (ik[1] * (LUnit \div cell.len[0])) * (ik[1] * (LUnit \div cell.len[0]))
  + (ik[2] * (LUnit \div cell.len[1])) * (ik[2] * (LUnit \div cell.len[1]))
  + (ik[3] * (LUnit \div cell.len[2])) * (ik[3] * (LUnit \div cell.len[2]))

NonZeroCount(ik) ==
    (IF ik[1] # 0 THEN 1 ELSE 0) + (IF ik[2] # 0 THEN 1 ELSE 0)
  + (IF ik[3] # 0 THEN 1 ELSE 0)

(* exp(-k2 / (4 alpha^2)) / k2 times 2 per non-zero index *)
ExpFactor(ewald, cell, ik) ==
    [c |-> 2 ^ NonZeroCount(ik), k2 |-> K2(cell, ik), alpha |-> ewald.alpha]

(* the k-space cutoff (kmax 2 pi / max_length)^2 *)
Kmax2(ewald, cell) ==
    LET max_lenght == Max2(Max2(cell.len[0], cell.len[1]), cell.len[2])
        k_rc == ewald.kmax * (LUnit \div max_lenght)
    IN  k_rc * k_rc

(* the loop filling expfactors without the final
   `self.expfactors[(0, 0, 0)] = 0.0`: exp(0) / 0 stays at the origin *)
FillExpFactorsKeepingOrigin(ewald, cell, kmax2) ==
    [ik \in Idx3(ewald.kmax) |->
        IF K2(cell, ik) > kmax2 THEN ZeroFactor
        ELSE ExpFactor(ewald, cell, ik)]

(* the loop filling expfactors, and the final expfactors[(0, 0, 0)] = 0.0 *)
FillExpFactors(ewald, cell, kmax2) ==
    [ik \in Idx3(ewald.kmax) |->
        IF ik = <<0, 0, 0>> THEN ZeroFactor
        ELSE IF K2(cell, ik) > kmax2 THEN ZeroFactor
        ELSE ExpFactor(ewald, cell, ik)]

(* precompute with the unchanged-cell test on the lengths alone *)
PrecomputeComparingLengths(ewald, cell) ==
    IF ewald.previous_cell # None /\ ewald.previous_cell[1].len = cell.len
    THEN [ewald |-> ewald, ok |-> TRUE]
    ELSE IF cell.shape # "Orthorhombic"
    THEN [ewald |-> ewald, ok |-> FALSE]
    ELSE [ewald |-> [ewald EXCEPT !.previous_cell = Some(cell),
                                  !.kmax2 = Kmax2(ewald, cell),
                                  !.expfactors =
                                      FillExpFactors(ewald, cell, Kmax2(ewald, cell))],
          ok |-> ewald.kmax # 0]

(* precompute with no unchanged-cell test, filling expfactors against the
   kmax2 of the call before *)
PrecomputeStaleCutoff(ewald, cell) ==
    IF cell.shape # "Orthorhombic"
    THEN [ewald |-> ewald, ok |-> FALSE]
    ELSE [ewald |-> [ewald EXCEPT !.previous_cell = Some(cell),
                                  !.kmax2 = Kmax2(ewald, cell),
                                  !.expfactors =
                                      FillExpFactors(ewald, cell, ewald.kmax2)],
          ok |-> ewald.kmax # 0]

(* precompute recording the cell before it looks at its shape *)
PrecomputeRecordingFirst(ewald, cell) ==
    IF ewald.previous_cell # None /\ ewald.previous_cell[1] = cell
    THEN [ewald |-> ewald, ok |-> TRUE]
    ELSE IF cell.shape # "Orthorhombic"
    THEN [ewald |-> [ewald EXCEPT !.previous_cell = Some(cell)], ok |-> FALSE]
    ELSE [ewald |-> [ewald EXCEPT !.previous_cell = Some(cell),
                                  !.kmax2 = Kmax2(ewald, cell),
                                  !.expfactors =
                                      FillExpFactors(ewald, cell, Kmax2(ewald, cell))],
          ok |-> ewald.kmax # 0]

(* Ewald::precompute *)
Precompute(ewald, cell) ==
    IF ewald.previous_cell # None /\ ewald.previous_cell[1] = cell
    THEN [ewald |-> ewald, ok |-> TRUE]
    ELSE IF cell.shape # "Orthorhombic"
    THEN [ewald |-> ewald, ok |-> FALSE]
    ELSE LET kmax2 == Kmax2(ewald, cell)
             recorded == [ewald EXCEPT !.previous_cell = Some(cell),
                                       !.kmax2 = kmax2]
         IN  IF ewald.kmax = 0
             THEN \* expfactors[(0, 0, 0)] is out of bounds
                  [ewald |-> recorded, ok |-> FALSE]
             ELSE [ewald |-> [recorded EXCEPT !.expfactors =
                                  FillExpFactors(ewald, cell, kmax2)],
                   ok |-> TRUE]

----------------------------------------------------------------------------
(* Real space part of the summation *)

(* Ewald::real_space_energy_pair, r2 the squared distance *)
RealSpaceEnergyPair(ewald, info, qi, qj, r2) ==
    IF r2 > ewald.rc * ewald.rc \/ info.excluded THEN FZero
    ELSE IF info.scaling # 1 THEN FPanic
    ELSE IF r2 = 0 THEN DivByZero(qi * qj)
    ELSE FTerm(qi * qj, <<"erfc", ewald.alpha, r2, 0>>)

(* Ewald::real_space_energy *)
RealSpaceEnergy(ewald, system) ==
    LET natoms == Size(system)
        Pair(i, j) ==
            IF Charge(system, j) = 0 THEN FZero
            ELSE RealSpaceEnergyPair(ewald,
                    Information(ewald.restriction, BondDistance(system, i, j)),
                    Charge(system, i), Charge(system, j),
                    Distance2(system, i, j))
        Row(i) ==
            IF Charge(system, i) = 0 THEN FZero
            ELSE FSumRange(LAMBDA j : Pair(i, j), i + 1, natoms - 1)
    IN  FSumRange(Row, 0, natoms - 1)

(* idxes.contains(x) *)
Contains(idxes, x) == \E idx \in DOMAIN idxes : idxes[idx] = x

(* Ewald::real_space_move_particles_cost: new says which of e_new, e_old *)
RealSpaceMoveSum(ewald, system, idxes, newpos, new) ==
    LET n == Len0(idxes)
        Unmoved(idx, j) ==
            \* `if qi == 0.0 {continue}` on the inner loop: qj is not tested
            IF Contains(idxes, j) THEN FZero
            ELSE RealSpaceEnergyPair(ewald,
                    Information(ewald.restriction,
                                BondDistance(system, idxes[idx], j)),
                    Charge(system, idxes[idx]), Charge(system, j),
                    IF new
                    THEN CellDistance2(system.cell, newpos[idx],
                                       Position(system, j))
                    ELSE Distance2(system, idxes[idx], j))
        First(idx) ==
            IF Charge(system, idxes[idx]) = 0 THEN FZero
            ELSE FSumRange(LAMBDA j : Unmoved(idx, j), 0, Size(system) - 1)
        BothMoved(idx, jdx) ==
            IF Charge(system, idxes[jdx]) = 0 THEN FZero
            ELSE RealSpaceEnergyPair(ewald,
                    Information(ewald.restriction,
                                BondDistance(system, idxes[idx], idxes[jdx])),
                    Charge(system, idxes[idx]), Charge(system, idxes[jdx]),
                    IF new
                    THEN CellDistance2(system.cell, newpos[idx], newpos[jdx])
                    ELSE Distance2(system, idxes[idx], idxes[jdx]))
        Second(idx) ==
            IF Charge(system, idxes[idx]) = 0 THEN FZero
            \* idxes.iter().enumerate().skip(i + 1)
            ELSE FSumRange(LAMBDA jdx : BothMoved(idx, jdx),
                           idxes[idx] + 1, n - 1)
    IN  FAdd(FSumRange(First, 0, n - 1), FSumRange(Second, 0, n - 1))

RealSpaceMoveParticlesCost(ewald, system, idxes, newpos) ==
    FSub(RealSpaceMoveSum(ewald, system, idxes, newpos, TRUE),
         RealSpaceMoveSum(ewald, system, idxes, newpos, FALSE))

----------------------------------------------------------------------------
(* Self-interaction correction *)

RECURSIVE SumInt(_, _, _)
SumInt(F(_), lo, hi) == IF lo > hi THEN 0 ELSE F(lo) + SumInt(F, lo + 1, hi)

(* Ewald::self_energy: -alpha / sqrt(pi) * q2 / ELCC *)
SelfEnergy(ewald, system) ==
    FTerm(-SumInt(LAMBDA i : Charge(system, i) * Charge(system, i),
                  0, Size(system) - 1),
          <<"self", ewald.alpha, 0, 0>>)

----------------------------------------------------------------------------
(* k-space part of the summation *)

PhaseDomain(kmax, natoms) == (0..(kmax - 1)) \X (0..(natoms - 1)) \X Axes

(* Array3::resize_if_different((kmax, natoms, 3)) *)
ResizeIfDifferent(phases, kmax, natoms) ==
    IF DOMAIN phases = PhaseDomain(kmax, natoms) THEN phases
    ELSE ZerosPhases(kmax, natoms)

RECURSIVE PhasePower(_, _)
(* phases[(k, i, j)]: 1 for k = 0, polar(1, -2 pi s) for k = 1, and
   phases[(k - 1, i, j)] * phases[(1, i, j)] from k = 2 on *)
PhasePower(turns, k) ==
    IF k = 0 THEN Polar1(0)
    ELSE IF k = 1 THEN Polar1(turns)
    ELSE CMul(PhasePower(turns, k - 1), PhasePower(turns, 1))

(* the phase arrays of the positions pos (kmax >= 2) *)
BuildPhases(cell, pos, kmax) ==
    [x \in PhaseDomain(kmax, Len0(pos)) |->
        PhasePower(PhaseTurns(cell, pos[x[2]], x[3]), x[1])]

(* Ewald::density_fft up to the swap of rho: the phase build.  With
   kmax < 2 and a particle, the write of fourier_phases[(1, 0, 0)] (or of
   [(0, 0, 0)] when kmax = 0) is out of bounds. *)
DensityFftPhases(ewald, system) ==
    LET natoms == Size(system)
        resized == ResizeIfDifferent(ewald.fourier_phases, ewald.kmax, natoms)
    IN  IF natoms = 0
        THEN [ewald |-> [ewald EXCEPT !.fourier_phases = resized], ok |-> TRUE]
        ELSE IF ewald.kmax = 0
        THEN [ewald |-> [ewald EXCEPT !.fourier_phases = resized], ok |-> FALSE]
        ELSE IF ewald.kmax = 1
        THEN [ewald |-> [ewald EXCEPT !.fourier_phases =
                            [resized EXCEPT ![<<0, 0, 0>>] = Polar1(0)]],
              ok |-> FALSE]
        ELSE [ewald |-> [ewald EXCEPT !.fourier_phases =
                            BuildPhases(system.cell, system.pos, ewald.kmax)],
              ok |-> TRUE]

(* phases[(ikx, j, 0)] * phases[(iky, j, 1)] * phases[(ikz, j, 2)] *)
Phi(phases, ik, j) ==
    CMul(CMul(phases[<<ik[1], j, 0>>], phases[<<ik[2], j, 1>>]),
         phases[<<ik[3], j, 2>>])

(* the Zip over new_rho: every entry of the array that was in rho *)
DensityRho(ewald, system, shape) ==
    [ik \in shape |->
        CSumRange(LAMBDA j : CScale(Charge(system, j),
                                    Phi(ewald.fourier_phases, ik, j)),
                  0, Size(system) - 1)]

(* density_fft also zeroing the scratch array delta_rho *)
DensityFftClearingDelta(ewald, system) ==
    With(DensityFftPhases(ewald, system), LAMBDA p :
        IF ~p.ok THEN p
        ELSE [ewald |-> [p.ewald EXCEPT
                            !.rho = DensityRho(p.ewald, system, DOMAIN ewald.rho),
                            !.delta_rho = ZerosC(ewald.kmax)],
              ok |-> TRUE])

(* density_fft keeping phases and rho when the number of particles is the
   one of the evaluation before *)
DensityFftSkippingRebuild(ewald, system) ==
    IF DOMAIN ewald.fourier_phases = PhaseDomain(ewald.kmax, Size(system))
       /\ Size(system) > 0 /\ ewald.kmax > 1
    THEN [ewald |-> ewald, ok |-> TRUE]
    ELSE With(DensityFftPhases(ewald, system), LAMBDA p :
        IF ~p.ok THEN p
        ELSE [ewald |-> [p.ewald EXCEPT !.rho =
                            DensityRho(p.ewald, system, DOMAIN ewald.rho)],
              ok |-> TRUE])

(* Ewald::density_fft *)
DensityFft(ewald, system) ==
    With(DensityFftPhases(ewald, system), LAMBDA p :
        IF ~p.ok THEN p
        ELSE [ewald |-> [p.ewald EXCEPT !.rho =
                            DensityRho(p.ewald, system, DOMAIN ewald.rho)],
              ok |-> TRUE])

(* expfactors[..].abs() < f64::EPSILON: 0.0, or exp(-k2 / (4 alpha^2)) / k2
   below 2.2e-16, about k2 / (4 alpha^2) > 36 *)
Negligible(factor) ==
    factor.c = 0 \/ 43 * factor.k2 > factor.alpha * factor.alpha

(* sum of expfactors * |rho|^2 over the k points, times 2 pi / (V ELCC) *)
KspaceSum(ewald, system, rho) ==
    LET n == ewald.kmax
        At(ik) ==
            IF Negligible(ewald.expfactors[ik]) THEN FZero
            ELSE FTerm(ewald.expfactors[ik].c * CNorm2(rho[ik]),
                       <<"k", ewald.expfactors[ik].alpha,
                         ewald.expfactors[ik].k2, CellVolume(system.cell)>>)
    IN  FSumRange(LAMBDA ikx :
            FSumRange(LAMBDA iky :
                FSumRange(LAMBDA ikz : At(<<ikx, iky, ikz>>), 0, n - 1),
                0, n - 1),
            0, n - 1)

(* Ewald::kspace_energy *)
KspaceEnergy(ewald, system) ==
    With(DensityFft(ewald, system), LAMBDA d :
        IF ~d.ok THEN [ewald |-> d.ewald, value |-> FPanic]
        ELSE [ewald |-> d.ewald,
              value |-> KspaceSum(d.ewald, system, d.ewald.rho)])

(* positions of the moved particles before the move *)
OldPositions(system, idxes) ==
    [idx \in DOMAIN idxes |-> Position(system, idxes[idx])]

(* the delta_rho entry at ik *)
DeltaRhoAt(system, idxes, old_phases, new_phases, ik) ==
    CSumRange(LAMBDA idx :
                CSub(CScale(Charge(system, idxes[idx]), Phi(new_phases, ik, idx)),
                     CScale(Charge(system, idxes[idx]), Phi(old_phases, ik, idx))),
              0, Len0(idxes) - 1)

(* Ewald::compute_delta_rho_move_particles *)
ComputeDeltaRhoMoveParticles(ewald, system, idxes, newpos) ==
    IF Len0(idxes) > 0 /\ ewald.kmax < 2
    THEN \* old_fourier_phases[(1, 0, 0)] is out of bounds
         [ewald |-> ewald, ok |-> FALSE]
    ELSE LET old_phases == BuildPhases(system.cell,
                                       OldPositions(system, idxes), ewald.kmax)
             new_phases == BuildPhases(system.cell, newpos, ewald.kmax)
         IN  [ewald |-> [ewald EXCEPT !.delta_rho =
                    [ik \in Idx3(ewald.kmax) |->
                        DeltaRhoAt(system, idxes, old_phases, new_phases, ik)]],
              ok |-> TRUE]

(* rho + delta_rho *)
RhoPlusDelta(ewald) ==
    [ik \in Idx3(ewald.kmax) |-> CAdd(ewald.rho[ik], ewald.delta_rho[ik])]

(* kspace_move_particles_cost taking e_old from the cached rho, with no
   density_fft of the system *)
KspaceMoveParticlesCostCachedRho(ewald, system, idxes, newpos) ==
    With(ComputeDeltaRhoMoveParticles(ewald, system, idxes, newpos), LAMBDA d :
        IF ~d.ok THEN [ewald |-> d.ewald, value |-> FPanic]
        ELSE [ewald |-> d.ewald,
              value |-> FSub(KspaceSum(d.ewald, system, RhoPlusDelta(d.ewald)),
                             KspaceSum(ewald, system, ewald.rho))])

(* Ewald::kspace_move_particles_cost *)
KspaceMoveParticlesCost(ewald, system, idxes, newpos) ==
    With(KspaceEnergy(ewald, system), LAMBDA old :
        IF IsPanic(old.value) THEN old
        ELSE With(ComputeDeltaRhoMoveParticles(old.ewald, system, idxes, newpos),
                  LAMBDA d :
            IF ~d.ok THEN [ewald |-> d.ewald, value |-> FPanic]
            ELSE [ewald |-> d.ewald,
                  value |-> FSub(KspaceSum(d.ewald, system,
                                           RhoPlusDelta(d.ewald)),
                                 old.value)]))

----------------------------------------------------------------------------
(* Molecular correction *)

(* Ewald::molcorrect_energy_pair *)
MolcorrectEnergyPair(ewald, info, qi, qj, r2) ==
    IF ~info.excluded THEN FPanic
    ELSE IF info.scaling # 1 THEN FPanic
    ELSE IF ~(r2 < ewald.rc * ewald.rc) THEN FPanic
    ELSE IF r2 = 0 THEN FNaN    \* erf(0) / 0
    ELSE FTerm(-(qi * qj), <<"erf", ewald.alpha, r2, 0>>)

(* molcorrect_energy without `if !info.excluded {continue}` *)
MolcorrectEnergyOverAllPairs(ewald, system) ==
    LET natoms == Size(system)
        Pair(i, j) ==
            IF Charge(system, j) = 0 THEN FZero
            ELSE MolcorrectEnergyPair(ewald,
                    Information(ewald.restriction, BondDistance(system, i, j)),
                    Charge(system, i), Charge(system, j),
                    Distance2(system, i, j))
        Row(i) ==
            IF Charge(system, i) = 0 THEN FZero
            ELSE FSumRange(LAMBDA j : Pair(i, j), i + 1, natoms - 1)
    IN  FSumRange(Row, 0, natoms - 1)

(* Ewald::molcorrect_energy *)
MolcorrectEnergy(ewald, system) ==
    LET natoms == Size(system)
        Pair(i, j) ==
            LET info == Information(ewald.restriction,
                                    BondDistance(system, i, j))
            IN  IF ~info.excluded THEN FZero
                ELSE IF Charge(system, j) = 0 THEN FZero
                ELSE MolcorrectEnergyPair(ewald, info, Charge(system, i),
                        Charge(system, j), Distance2(system, i, j))
        Row(i) ==
            IF Charge(system, i) = 0 THEN FZero
            ELSE FSumRange(LAMBDA j : Pair(i, j), i + 1, natoms - 1)
    IN  FSumRange(Row, 0, natoms - 1)

(* Ewald::molcorrect_move_particles_cost: new says which of e_new, e_old.
   A pair's e_old is computed before its e_new, so a failure of either
   kernel call fails the whole sum. *)
MolcorrectMoveSum(ewald, system, idxes, newpos, new) ==
    LET n == Len0(idxes)
        Unmoved(idx, j) ==
            LET info == Information(ewald.restriction,
                                    BondDistance(system, idxes[idx], j))
            IN  \* `if qi == 0.0 {continue}` on the inner loop: qj is not tested
                IF Contains(idxes, j) THEN FZero
                ELSE IF ~info.excluded THEN FZero
                ELSE MolcorrectEnergyPair(ewald, info,
                        Charge(system, idxes[idx]), Charge(system, j),
                        IF new
                        THEN CellDistance2(system.cell, newpos[idx],
                                           Position(system, j))
                        ELSE Distance2(system, idxes[idx], j))
        First(idx) ==
            IF Charge(system, idxes[idx]) = 0 THEN FZero
            ELSE FSumRange(LAMBDA j : Unmoved(idx, j), 0, Size(system) - 1)
        BothMoved(idx, jdx) ==
            LET info == Information(ewald.restriction,
                            BondDistance(system, idxes[idx], idxes[jdx]))
            IN  IF Charge(system, idxes[jdx]) = 0 THEN FZero
                ELSE IF ~info.excluded THEN FZero
                ELSE MolcorrectEnergyPair(ewald, info,
                        Charge(system, idxes[idx]), Charge(system, idxes[jdx]),
                        IF new
                        THEN CellDistance2(system.cell, newpos[idx], newpos[jdx])
                        ELSE Distance2(system, idxes[idx], idxes[jdx]))
        Second(idx) ==
            IF Charge(system, idxes[idx]) = 0 THEN FZero
            \* idxes.iter().enumerate().skip(i + 1)
            ELSE FSumRange(LAMBDA jdx : BothMoved(idx, jdx),
                           idxes[idx] + 1, n - 1)
    IN  FAdd(FSumRange(First, 0, n - 1), FSumRange(Second, 0, n - 1))

MolcorrectMoveParticlesCost(ewald, system, idxes, newpos) ==
    FSub(MolcorrectMoveSum(ewald, system, idxes, newpos, TRUE),
         MolcorrectMoveSum(ewald, system, idxes, newpos, FALSE))

----------------------------------------------------------------------------
(* Forces and virial: a Vector3D is a function on Axes of f64 values, a
   Matrix3 a function on Axes \X Axes. *)

(* n * x for an integer n *)
FScale(n, x) ==
    CASE x.cls = "panic" -> FPanic
      [] x.cls = "nan" -> FNaN
      [] x.cls = "fin" ->
            IF n = 0 THEN FZero ELSE Fin([t \in DOMAIN x.sum |-> n * x.sum[t]])
      [] n = 0 -> FNaN
      [] n > 0 -> x
      [] OTHER -> FNeg(x)

VZero == [a \in Axes |-> FZero]

VNaN == [a \in Axes |-> FNaN]

VPanic == [a \in Axes |-> FPanic]

VAdd(u, v) ==
    With(u, LAMBDA x : With(v, LAMBDA y :
        [a \in Axes |-> FAdd(x[a], y[a])]))

VNeg(u) == With(u, LAMBDA x : [a \in Axes |-> FNeg(x[a])])

VIsPanic(u) == \E a \in Axes : IsPanic(u[a])

RECURSIVE VSumRange(_, _, _)
VSumRange(F(_), lo, hi) ==
    IF lo > hi THEN VZero
    ELSE CHOOSE r \in {VAdd(x, y) : x \in {F(lo)},
                                    y \in {VSumRange(F, lo + 1, hi)}} : TRUE

MZero == [ab \in Axes \X Axes |-> FZero]

MAdd(m, n) ==
    With(m, LAMBDA x : With(n, LAMBDA y :
        [ab \in Axes \X Axes |-> FAdd(x[ab], y[ab])]))

MNeg(m) == With(m, LAMBDA x : [ab \in Axes \X Axes |-> FNeg(x[ab])])

MIsPanic(m) == \E ab \in Axes \X Axes : IsPanic(m[ab])

(* force.tensorial(&rij) *)
Tensorial(force, rij) ==
    With(force, LAMBDA x : With(rij, LAMBDA y :
        [ab \in Axes \X Axes |-> FScale(y[ab[2]], x[ab[1]])]))

RECURSIVE MSumRange(_, _, _)
MSumRange(F(_), lo, hi) ==
    IF lo > hi THEN MZero
    ELSE CHOOSE r \in {MAdd(x, y) : x \in {F(lo)},
                                    y \in {MSumRange(F, lo + 1, hi)}} : TRUE

(* System::nearest_image *)
NearestImage(system, i, j) ==
    WrapVector(system.cell, VSub(Position(system, i), Position(system, j)))

(* Ewald::real_space_force_pair: no assertion on info.scaling *)
RealSpaceForcePair(ewald, info, qi, qj, rij) ==
    IF VNorm2(rij) > ewald.rc * ewald.rc \/ info.excluded THEN VZero
    ELSE IF VNorm2(rij) = 0 THEN VNaN    \* an infinite factor times 0.0
    ELSE [a \in Axes |->
            FTerm(qi * qj * rij[a], <<"freal", ewald.alpha, VNorm2(rij), 0>>)]

(* the pair force of the real-space loops, zero for a skipped pair *)
RealSpacePairForce(ewald, system, i, j) ==
    IF Charge(system, i) = 0 \/ Charge(system, j) = 0 THEN VZero
    ELSE RealSpaceForcePair(ewald,
            Information(ewald.restriction, BondDistance(system, i, j)),
            Charge(system, i), Charge(system, j), NearestImage(system, i, j))

(* what a loop over i < j with forces[i] += force; forces[j] -= force
   leaves in forces[p] *)
PairwiseForces(system, Force(_, _)) ==
    [p \in 0..(Size(system) - 1) |->
        VAdd(VSumRange(LAMBDA j : Force(p, j), p + 1, Size(system) - 1),
             VNeg(VSumRange(LAMBDA i : Force(i, p), 0, p - 1)))]

(* what a loop over i < j with virial -= force.tensorial(&rij) leaves *)
PairwiseVirial(system, Force(_, _)) ==
    MNeg(MSumRange(LAMBDA i :
            MSumRange(LAMBDA j : Tensorial(Force(i, j), NearestImage(system, i, j)),
                      i + 1, Size(system) - 1),
            0, Size(system) - 1))

(* real_space_forces without `forces[j] -= force` *)
RealSpaceForcesOneSided(ewald, system) ==
    [p \in 0..(Size(system) - 1) |->
        VSumRange(LAMBDA j : RealSpacePairForce(ewald, system, p, j),
                  p + 1, Size(system) - 1)]

(* Ewald::real_space_forces, on a zeroed buffer *)
RealSpaceForces(ewald, system) ==
    PairwiseForces(system, LAMBDA i, j : RealSpacePairForce(ewald, system, i, j))

(* Ewald::real_space_virial *)
RealSpaceVirial(ewald, system) ==
    PairwiseVirial(system, LAMBDA i, j : RealSpacePairForce(ewald, system, i, j))

(* Ewald::molcorrect_force_pair *)
MolcorrectForcePair(ewald, info, qi, qj, rij) ==
    IF ~info.excluded THEN VPanic
    ELSE IF info.scaling # 1 THEN VPanic
    ELSE IF ~(VNorm2(rij) < ewald.rc * ewald.rc) THEN VPanic
    ELSE IF VNorm2(rij) = 0 THEN VNaN
    ELSE [a \in Axes |->
            FTerm(qi * qj * rij[a], <<"fmol", ewald.alpha, VNorm2(rij), 0>>)]

(* the pair force of the molecular-correction loops *)
MolcorrectPairForce(ewald, system, i, j) ==
    LET info == Information(ewald.restriction, BondDistance(system, i, j))
    IN  IF Charge(system, i) = 0 THEN VZero
        ELSE IF ~info.excluded THEN VZero
        ELSE IF Charge(system, j) = 0 THEN VZero
        ELSE MolcorrectForcePair(ewald, info, Charge(system, i),
                                 Charge(system, j), NearestImage(system, i, j))

(* Ewald::molcorrect_forces, on a zeroed buffer *)
MolcorrectForces(ewald, system) ==
    PairwiseForces(system, LAMBDA i, j : MolcorrectPairForce(ewald, system, i, j))

(* Ewald::molcorrect_virial *)
MolcorrectVirial(ewald, system) ==
    PairwiseVirial(system, LAMBDA i, j : MolcorrectPairForce(ewald, system, i, j))

(* the reciprocal vector at ik, in units of 2 pi / LUnit *)
KVector(cell, ik) == [a \in Axes |-> ik[a + 1] * (LUnit \div cell.len[a])]

(* Ewald::kspace_force_factor: qi qj (Im(phi_i) - Im(phi_j)) *)
KspaceForceFactor(ewald, system, ik, i, j) ==
    Charge(system, i) * Charge(system, j)
        * (Phi(ewald.fourier_phases, ik, i)[2] - Phi(ewald.fourier_phases, ik, j)[2])

(* `force` of the k-space loops for the pair i < j at the k point ik *)
KspacePairForceAt(ewald, system, ik, i, j) ==
    [a \in Axes |->
        FTerm(ewald.expfactors[ik].c * KspaceForceFactor(ewald, system, ik, i, j)
                  * KVector(system.cell, ik)[a],
              <<"fk", ewald.expfactors[ik].alpha, ewald.expfactors[ik].k2,
                CellVolume(system.cell)>>)]

(* `force` summed over the k points that are not skipped *)
KspacePairForce(ewald, system, i, j) ==
    LET n == ewald.kmax
        At(ik) == IF Negligible(ewald.expfactors[ik]) THEN VZero
                  ELSE KspacePairForceAt(ewald, system, ik, i, j)
    IN  VSumRange(LAMBDA ikx :
            VSumRange(LAMBDA iky :
                VSumRange(LAMBDA ikz : At(<<ikx, iky, ikz>>), 0, n - 1),
                0, n - 1),
            0, n - 1)

(* Ewald::kspace_forces, on a zeroed buffer: force_i -= force and
   forces[j] += force for every j > i *)
KspaceForces(ewald, system) ==
    With(DensityFft(ewald, system), LAMBDA d :
        IF ~d.ok THEN [ewald |-> d.ewald, ok |-> FALSE, value |-> << >>]
        ELSE [ewald |-> d.ewald, ok |-> TRUE,
              value |-> PairwiseForces(system,
                  LAMBDA i, j : VNeg(KspacePairForce(d.ewald, system, i, j)))])

(* kspace_virial with `local_virial -= force.tensorial(&rij)`, the
   statement of the other two kernels applied to the k-space `force` *)
KspaceVirialSubtracting(ewald, system) ==
    With(DensityFft(ewald, system), LAMBDA d :
        IF ~d.ok THEN [ewald |-> d.ewald, ok |-> FALSE, value |-> MZero]
        ELSE [ewald |-> d.ewald, ok |-> TRUE,
              value |-> PairwiseVirial(system,
                  LAMBDA i, j : KspacePairForce(d.ewald, system, i, j))])

(* Ewald::kspace_virial: the sum of force.tensorial(&rij) over the k
   points and the pairs i < j *)
KspaceVirial(ewald, system) ==
    With(DensityFft(ewald, system), LAMBDA d :
        IF ~d.ok THEN [ewald |-> d.ewald, ok |-> FALSE, value |-> MZero]
        ELSE [ewald |-> d.ewald, ok |-> TRUE,
              value |-> PairwiseVirial(system,
                  LAMBDA i, j : VNeg(KspacePairForce(d.ewald, system, i, j)))])

----------------------------------------------------------------------------
(* SharedEwald: the bodies of the entry points, run holding the guard.
   Each gives the engine it leaves, ok = FALSE when it fails fatally (the
   engine is then as the failure left it) and the value it returns. *)

NoValue == << >>

Failed(ewald) == [ewald |-> ewald, ok |-> FALSE, value |-> NoValue]

Returned(ewald, value) == [ewald |-> ewald, ok |-> TRUE, value |-> value]

(* the total with the self term left out *)
EnergyTotalWithoutSelf(real, self_e, kspace, molecular) ==
    FAdd(FAdd(real, kspace), molecular)

(* real + self_e + kspace + molecular *)
EnergyTotal(real, self_e, kspace, molecular) ==
    FAdd(FAdd(FAdd(real, self_e), kspace), molecular)

(* SharedEwald::energy *)
EnergyBody(ewald, system) ==
    With(Precompute(ewald, system.cell), LAMBDA p :
    IF ~p.ok THEN Failed(p.ewald) ELSE
    With(RealSpaceEnergy(p.ewald, system), LAMBDA real :
    IF IsPanic(real) THEN Failed(p.ewald) ELSE
    With(SelfEnergy(p.ewald, system), LAMBDA self_e :
    With(KspaceEnergy(p.ewald, system), LAMBDA kspace :
    IF IsPanic(kspace.value) THEN Failed(kspace.ewald) ELSE
    With(MolcorrectEnergy(kspace.ewald, system), LAMBDA molecular :
    IF IsPanic(molecular) THEN Failed(kspace.ewald)
    ELSE Returned(kspace.ewald,
                  EnergyTotal(real, self_e, kspace.value, molecular)))))))

(* the three kernels adding into one buffer *)
ForcesTotal(system, real, kspace, molecular) ==
    [i \in 0..(Size(system) - 1) |-> VAdd(VAdd(real[i], kspace[i]), molecular[i])]

(* SharedEwald::forces *)
ForcesBody(ewald, system) ==
    With(Precompute(ewald, system.cell), LAMBDA p :
    IF ~p.ok THEN Failed(p.ewald) ELSE
    With(RealSpaceForces(p.ewald, system), LAMBDA real :
    With(KspaceForces(p.ewald, system), LAMBDA kspace :
    IF ~kspace.ok THEN Failed(kspace.ewald) ELSE
    With(MolcorrectForces(kspace.ewald, system), LAMBDA molecular :
    IF \E i \in DOMAIN molecular : VIsPanic(molecular[i])
    THEN Failed(kspace.ewald)
    ELSE Returned(kspace.ewald,
                  ForcesTotal(system, real, kspace.value, molecular))))))

(* real + kspace + molecular *)
VirialTotal(real, kspace, molecular) == MAdd(MAdd(real, kspace), molecular)

(* SharedEwald::virial *)
VirialBody(ewald, system) ==
    With(Precompute(ewald, system.cell), LAMBDA p :
    IF ~p.ok THEN Failed(p.ewald) ELSE
    With(RealSpaceVirial(p.ewald, system), LAMBDA real :
    With(KspaceVirial(p.ewald, system), LAMBDA kspace :
    IF ~kspace.ok THEN Failed(kspace.ewald) ELSE
    With(MolcorrectVirial(kspace.ewald, system), LAMBDA molecular :
    IF MIsPanic(molecular) THEN Failed(kspace.ewald)
    ELSE Returned(kspace.ewald,
                  VirialTotal(real, kspace.value, molecular))))))

(* real + kspace + molecular *)
CostTotal(real, kspace, molecular) == FAdd(FAdd(real, kspace), molecular)

(* SharedEwald::move_particles_cost *)
MoveParticlesCostBody(ewald, system, idxes, newpos) ==
    With(Precompute(ewald, system.cell), LAMBDA p :
    IF ~p.ok THEN Failed(p.ewald) ELSE
    With(RealSpaceMoveParticlesCost(p.ewald, system, idxes, newpos),
         LAMBDA real :
    IF IsPanic(real) THEN Failed(p.ewald) ELSE
    With(KspaceMoveParticlesCost(p.ewald, system, idxes, newpos),
         LAMBDA kspace :
    IF IsPanic(kspace.value) THEN Failed(kspace.ewald) ELSE
    With(MolcorrectMoveParticlesCost(kspace.ewald, system, idxes, newpos),
         LAMBDA molecular :
    IF IsPanic(molecular) THEN Failed(kspace.ewald)
    ELSE Returned(kspace.ewald,
                  CostTotal(real, kspace.value, molecular))))))

(* update written `rho = delta_rho` *)
UpdateBodyOverwriting(ewald) ==
    Returned([ewald EXCEPT !.rho = ewald.delta_rho], NoValue)

(* update skipping the entries the k-space sums skip *)
UpdateBodySkippingNegligible(ewald) ==
    Returned([ewald EXCEPT !.rho =
                [ik \in Idx3(ewald.kmax) |->
                    IF Negligible(ewald.expfactors[ik]) THEN ewald.rho[ik]
                    ELSE CAdd(ewald.rho[ik], ewald.delta_rho[ik])]],
             NoValue)

(* update that clears delta_rho once it is folded into rho *)
UpdateBodyClearingDelta(ewald) ==
    Returned([ewald EXCEPT !.rho = RhoPlusDelta(ewald),
                           !.delta_rho = ZerosC(ewald.kmax)], NoValue)

(* SharedEwald::update: rho += delta_rho at every (ikx, iky, ikz) *)
UpdateBody(ewald) ==
    Returned([ewald EXCEPT !.rho = RhoPlusDelta(ewald)], NoValue)

(* SharedEwald::density_fft *)
DensityFftBody(ewald, system) ==
    With(Precompute(ewald, system.cell), LAMBDA p :
    IF ~p.ok THEN Failed(p.ewald) ELSE
    With(DensityFft(p.ewald, system), LAMBDA d :
    IF ~d.ok THEN Failed(d.ewald)
    ELSE Returned(d.ewald, NoValue)))

(* SharedEwald::set_restriction *)
SetRestrictionBody(ewald, restriction) ==
    Returned([ewald EXCEPT !.restriction = restriction], NoValue)

(* SharedEwald::cutoff: Some(rc) *)
CutoffBody(ewald) == Returned(ewald, Some(ewald.rc))

(* SharedEwald::clone: a new SharedEwald around a copy of the engine *)
CloneBody(ewald) == Returned(ewald, ewald)

----------------------------------------------------------------------------
(* The driver: the engines, the systems and the trial moves it uses. *)

(* the largest kmax of the engines built *)
MaxKmax == 3

(* update() calls that may follow one another with no evaluation between *)
MaxFolds == 2

(* threads sharing one SharedEwald, the calls they make in all, and the
   kmax of the engine they share *)
NThreads == 2

MaxCalls == 3

KmaxMT == 2

Kmaxes == {0, 1, MaxKmax}

Cutoffs == {3}

AlphaArgs == {F64NaN, F64(-4520), F64(0), F64(10)}

Restrictions == {"None", "InterMolecular"}

Cubic == Ortho(8, 8, 8)

Flat == Ortho(8, 4, 8)

BadCells == {Triclinic(8, 8, 8), InfiniteCell}

System(cell, q, mol, pos) ==
    [cell |-> cell, q |-> Arr(q), mol |-> Arr(mol), pos |-> Arr(pos)]

Move(idxes, newpos) == [idxes |-> Arr(idxes), newpos |-> Arr(newpos)]

(* two molecules, every particle charged *)
SysA(cell) ==
    System(cell, <<2, 1, -1>>, <<1, 0, 0>>,
           <<Vec(0, 2, 2), Vec(0, 0, 0), Vec(2, 0, 0)>>)

(* one molecule with a neutral particle far from the others *)
SysB(cell) ==
    System(cell, <<1, 0, -1>>, <<0, 0, 0>>,
           <<Vec(0, 0, 0), Vec(4, 0, 0), Vec(0, 2, 0)>>)

MovesA ==
    {Move(<<0, 1>>, <<Vec(0, 0, 2), Vec(2, 2, 0)>>),
     Move(<<1, 2>>, <<Vec(0, 0, 2), Vec(2, 2, 2)>>)}

MovesB == {Move(<<0>>, <<Vec(0, 0, 2)>>)}

(* the systems a trial move is asked on, with their moves *)
Trials ==
    {<<SysA(Cubic), m>> : m \in MovesA}
    \cup {<<SysA(Triclinic(8, 8, 8)), Move(<<0>>, <<Vec(2, 2, 0)>>)>>}
    \cup {<<SysB(Flat), m>> : m \in MovesB}

(* the systems whose forces and virial are asked *)
BaseSystems == {t[1] : t \in Trials}

(* the systems evaluated: those above, before and after their moves *)
Systems ==
    BaseSystems \cup {SysA(Flat)} \cup {SysA(c) : c \in BadCells}
    \cup {Moved(SysA(Cubic), m.idxes, m.newpos) : m \in MovesA}

----------------------------------------------------------------------------
VARIABLES
    ewald,      \* the Ewald solver (inside the lock once shared)
    shared,     \* FALSE: an Ewald being set up; TRUE: wrapped in a SharedEwald
    poisoned,   \* the RwLock is poisoned
    last,       \* the last call: its arguments, whether it returned, its value
    cycle,      \* trial-move cycle: Initial, Clean, Pending, Committed,
                \* Refolded, Failed
    lock,       \* the RwLock: the thread holding the write guard, the readers
    threads,    \* each thread's call in progress and where it stands in it
    pending     \* the last move_particles_cost that returned, and its thread

vars == <<ewald, shared, poisoned, last, cycle, lock, threads, pending>>

(* the variables of the threads, which a driver with one thread leaves alone *)
mt == <<lock, threads, pending>>

NoMove == [idxes |-> << >>, newpos |-> << >>]

(* the threads sharing the SharedEwald *)
Threads == 1..NThreads

(* RwLock state: writer is the thread holding the write guard, 0 for none *)
Unlocked == [writer |-> 0, readers |-> {}]

(* a thread between two calls, having made `calls` calls.  In a call: op
   and its arguments (arg: the restriction to set), pc the point reached, start the engine as the guard
   was taken, value what the call returns.  cost is the thread's last
   move_particles_cost not yet followed by its update, folded the pending
   move its update folded, intruded whether an evaluation of another thread
   took effect since cost. *)
Idle(calls) ==
    [pc |-> "idle", op |-> "", system |-> NoValue, move |-> NoMove,
     arg |-> NoValue, start |-> NoValue, value |-> NoValue, calls |-> calls,
     cost |-> None, folded |-> NoValue, intruded |-> FALSE]

NoPending == [by |-> 0, system |-> NoValue, move |-> NoMove]

Call(op, ok, system, move, value) ==
    [op |-> op, ok |-> ok, system |-> system, move |-> move, value |-> value]

(* from: for a Pending cycle, the state move_particles_cost was called in *)
Cycle(state, from, system, move, folds) ==
    [state |-> state, from |-> from, system |-> system, move |-> move,
     folds |-> folds]

Init ==
    /\ \E cutoff \in Cutoffs, kmax \in Kmaxes : ewald = New(cutoff, kmax)
    /\ shared = FALSE
    /\ poisoned = FALSE
    /\ last = Call("new", TRUE, NoValue, NoMove, NoValue)
    /\ cycle = Cycle("Initial", "", NoValue, NoMove, 0)
    /\ lock = Unlocked
    /\ threads = [t \in Threads |-> Idle(0)]
    /\ pending = NoPending

(* Ewald::set_alpha on the engine being set up *)
SetAlphaCall(alpha) ==
    /\ ~shared
    /\ ewald' = SetAlpha(ewald, alpha).ewald
    /\ last' = Call("set_alpha", SetAlpha(ewald, alpha).ok, NoValue, NoMove, alpha)
    /\ UNCHANGED <<shared, poisoned, cycle, mt>>

(* SharedEwald::new *)
Share ==
    /\ ~shared
    /\ shared' = TRUE
    /\ last' = Call("share", TRUE, NoValue, NoMove, NoValue)
    /\ UNCHANGED <<ewald, poisoned, cycle, mt>>

(* self.write() returns a guard: the engine is in a SharedEwald whose lock
   is not poisoned *)
CanLock == shared /\ ~poisoned

(* An entry point that takes the write guard.  A failure of the body
   unwinds with the guard held, which poisons the lock, and ends the run of
   a driver with one thread. *)
WriteCall(op, r, system, move, next_cycle) ==
    /\ CanLock
    /\ ewald' = r.ewald
    /\ poisoned' = ~r.ok
    /\ last' = Call(op, r.ok, system, move, r.value)
    /\ cycle' = IF r.ok THEN next_cycle ELSE [cycle EXCEPT !.state = "Failed"]
    /\ UNCHANGED <<shared, mt>>

EnergyCall(system) ==
    /\ CanLock
    /\ \E r \in {EnergyBody(ewald, system)} :
            WriteCall("energy", r, system, NoMove,
                      Cycle("Clean", "", system, NoMove, 0))

ForcesCall(system) ==
    /\ CanLock
    /\ \E r \in {ForcesBody(ewald, system)} :
            WriteCall("forces", r, system, NoMove,
                      Cycle("Clean", "", system, NoMove, 0))

VirialCall(system) ==
    /\ CanLock
    /\ \E r \in {VirialBody(ewald, system)} :
            WriteCall("virial", r, system, NoMove,
                      Cycle("Clean", "", system, NoMove, 0))

DensityFftCall(system) ==
    /\ CanLock
    /\ \E r \in {DensityFftBody(ewald, system)} :
            WriteCall("density_fft", r, system, NoMove,
                      Cycle("Clean", "", system, NoMove, 0))

MoveParticlesCostCall(system, move) ==
    /\ CanLock
    /\ \E r \in {MoveParticlesCostBody(ewald, system, move.idxes, move.newpos)} :
            WriteCall("move_particles_cost", r, system, move,
                      Cycle("Pending", cycle.state, system, move, 0))

UpdateCall ==
    /\ cycle.folds < MaxFolds
    /\ WriteCall("update", UpdateBody(ewald), NoValue, NoMove,
                 Cycle(IF cycle.state = "Pending" THEN "Committed" ELSE "Refolded",
                       "", cycle.system, cycle.move, cycle.folds + 1))

SetRestrictionCall(restriction) ==
    WriteCall("set_restriction", SetRestrictionBody(ewald, restriction),
              NoValue, NoMove, cycle)

Next ==
    \/ \E alpha \in AlphaArgs : SetAlphaCall(alpha)
    \/ Share
    \/ \E system \in Systems : EnergyCall(system)
    \/ \E system \in BaseSystems : ForcesCall(system)
    \/ \E system \in BaseSystems : VirialCall(system)
    \/ \E system \in BaseSystems : DensityFftCall(system)
    \/ \E t \in Trials : MoveParticlesCostCall(t[1], t[2])
    \/ UpdateCall
    \/ \E restriction \in Restrictions : SetRestrictionCall(restriction)

Spec == Init /\ [][Next]_vars

----------------------------------------------------------------------------
(* The engine used from inside its module, where the private precompute
   can be called on an Ewald that is not wrapped yet. *)

(* the cells precompute is called with *)
CrateCells == {Cubic, Flat, Triclinic(8, 8, 8)}

(* Ewald::precompute called on the engine being set up; a failure leaves
   the engine as it was when the assertion failed *)
PrecomputeCall(cell) ==
    /\ ~shared
    /\ \E p \in {Precompute(ewald, cell)} :
            /\ ewald' = p.ewald
            /\ last' = Call("precompute", p.ok, NoValue, NoMove, cell)
    /\ UNCHANGED <<shared, poisoned, cycle, mt>>

NextCrate ==
    \/ \E alpha \in AlphaArgs : SetAlphaCall(alpha)
    \/ \E cell \in CrateCells : PrecomputeCall(cell)
    \/ Share
    \/ \E system \in Systems : EnergyCall(system)
    \/ \E t \in Trials : MoveParticlesCostCall(t[1], t[2])
    \/ \E restriction \in Restrictions : SetRestrictionCall(restriction)

SpecCrate == Init /\ [][NextCrate]_vars

----------------------------------------------------------------------------
(* The engine under restrictions that scale or exclude bonded pairs, on
   systems and moves that take a bonded pair beyond the cutoff. *)

ScalingRestrictions == {"Scaled", "InterMolecular"}

(* moves of SysA that take the bonded particles 1 and 2 apart: particle 1
   alone, and both *)
MovesApart ==
    {Move(<<1>>, <<Vec(0, 0, 4)>>),
     Move(<<1, 2>>, <<Vec(0, 0, 0), Vec(4, 0, 0)>>)}

(* SysA with its bonded particles 1 and 2 at distance 4, beyond the cutoff *)
SysApart ==
    Moved(SysA(Cubic), Arr(<<1, 2>>), Arr(<<Vec(0, 0, 0), Vec(4, 0, 0)>>))

RestrictedTrials ==
    Trials
    \cup {<<SysA(Cubic), m>> : m \in MovesApart}
    \cup {<<SysApart, Move(<<1>>, <<Vec(2, 0, 0)>>)>>}

RestrictedSystems == BaseSystems \cup {SysApart}

NextRestricted ==
    \/ Share
    \/ \E restriction \in ScalingRestrictions : SetRestrictionCall(restriction)
    \/ \E system \in RestrictedSystems : EnergyCall(system)
    \/ \E system \in RestrictedSystems : ForcesCall(system)
    \/ \E system \in RestrictedSystems : VirialCall(system)
    \/ \E t \in RestrictedTrials : MoveParticlesCostCall(t[1], t[2])

SpecRestricted == Init /\ [][NextRestricted]_vars

----------------------------------------------------------------------------
(* Several threads sharing one SharedEwald.  A call takes its guard, runs
   its body in steps and drops the guard as it returns; a body that fails
   unwinds with the guard, which poisons the lock. *)

(* entry points that take self.write() and those that take self.read() *)
WriteOps ==
    {"energy", "forces", "virial", "density_fft", "move_particles_cost",
     "update", "set_restriction"}

ReadOps == {"cutoff", "clone"}

(* entry points whose body starts with precompute and runs density_fft *)
DensityOps ==
    {"energy", "forces", "virial", "density_fft", "move_particles_cost"}

(* the evaluation entry points of GlobalPotential and GlobalCache *)
EvaluationOps ==
    {"energy", "forces", "virial", "move_particles_cost", "update"}

MTCall(op, system, move, arg) ==
    [op |-> op, system |-> system, move |-> move, arg |-> arg]

(* the calls the threads choose from *)
Menu ==
    {MTCall(op, SysA(Cubic), NoMove, NoValue) :
        op \in {"energy", "forces", "virial", "density_fft"}}
    \cup {MTCall("move_particles_cost", SysA(Cubic), m, NoValue) : m \in MovesA}
    \cup {MTCall(op, NoValue, NoMove, NoValue) : op \in {"update", "cutoff", "clone"}}
    \cup {MTCall("set_restriction", NoValue, NoMove, "InterMolecular"),
          MTCall("energy", SysA(Triclinic(8, 8, 8)), NoMove, NoValue)}

(* the body of the entry point the thread record c is in, run on engine e *)
BodyOf(c, e) ==
    CASE c.op = "energy" -> EnergyBody(e, c.system)
      [] c.op = "forces" -> ForcesBody(e, c.system)
      [] c.op = "virial" -> VirialBody(e, c.system)
      [] c.op = "density_fft" -> DensityFftBody(e, c.system)
      [] c.op = "move_particles_cost" ->
            MoveParticlesCostBody(e, c.system, c.move.idxes, c.move.newpos)
      [] c.op = "update" -> UpdateBody(e)
      [] c.op = "set_restriction" -> SetRestrictionBody(e, c.arg)
      [] c.op = "cutoff" -> CutoffBody(e)
      [] OTHER -> CloneBody(e)

TotalCalls == SumInt(LAMBDA t : threads[t].calls, 1, NThreads)

(* a write guard granted while read guards are held *)
CanWriteAmongReaders(l) == l.writer = 0

(* RwLock::write returns once no guard is held *)
CanWrite(l) == l.writer = 0 /\ l.readers = {}

(* RwLock::read returns once no write guard is held *)
CanRead(l) == l.writer = 0

(* threads are interchangeable: they are numbered in the order of their
   first calls *)
MayCall(t) ==
    /\ threads[t].pc = "idle"
    /\ TotalCalls < MaxCalls
    /\ \A u \in 1..(t - 1) : threads[u].calls > 0

(* the thread record as t enters the call c *)
Entered(t, c, pc) ==
    [threads[t] EXCEPT !.pc = pc, !.op = c.op, !.system = c.system,
                       !.move = c.move, !.arg = c.arg, !.calls = @ + 1,
                       !.start = ewald]

(* an entry point that goes from self.write() to density_fft without
   calling precompute *)
CallWriteSkippingPrecompute(t, c) ==
    /\ MayCall(t)
    /\ c.op \in WriteOps
    /\ CanWrite(lock)
    /\ IF poisoned
       THEN /\ threads' = [threads EXCEPT ![t] = Entered(t, c, "panicked")]
            /\ UNCHANGED lock
       ELSE /\ lock' = [lock EXCEPT !.writer = t]
            /\ threads' = [threads EXCEPT ![t] =
                    Entered(t, c, IF c.op \in DensityOps THEN "density"
                                  ELSE "body")]
    /\ UNCHANGED <<ewald, shared, poisoned, last, cycle, pending>>

(* a thread calls an entry point whose first statement is self.write(),
   and gets the guard, or fails the expect on a poisoned lock.  A thread
   blocked in write() is a thread that has not called yet. *)
CallWrite(t, c) ==
    /\ MayCall(t)
    /\ c.op \in WriteOps
    /\ CanWrite(lock)
    /\ IF poisoned
       THEN /\ threads' = [threads EXCEPT ![t] = Entered(t, c, "panicked")]
            /\ UNCHANGED lock
       ELSE /\ lock' = [lock EXCEPT !.writer = t]
            /\ threads' = [threads EXCEPT ![t] =
                    Entered(t, c, IF c.op \in DensityOps THEN "precompute"
                                  ELSE "body")]
    /\ UNCHANGED <<ewald, shared, poisoned, last, cycle, pending>>

(* read() handing out the guard of a poisoned lock instead of failing *)
CallReadIgnoringPoison(t, c) ==
    /\ MayCall(t)
    /\ c.op \in ReadOps
    /\ CanRead(lock)
    /\ lock' = [lock EXCEPT !.readers = @ \cup {t}]
    /\ threads' = [threads EXCEPT ![t] = Entered(t, c, "body")]
    /\ UNCHANGED <<ewald, shared, poisoned, last, cycle, pending>>

(* a thread calls cutoff or clone, whose first statement is self.read() *)
CallRead(t, c) ==
    /\ MayCall(t)
    /\ c.op \in ReadOps
    /\ CanRead(lock)
    /\ IF poisoned
       THEN /\ threads' = [threads EXCEPT ![t] = Entered(t, c, "panicked")]
            /\ UNCHANGED lock
       ELSE /\ lock' = [lock EXCEPT !.readers = @ \cup {t}]
            /\ threads' = [threads EXCEPT ![t] = Entered(t, c, "body")]
    /\ UNCHANGED <<ewald, shared, poisoned, last, cycle, pending>>

(* the unwinding of a failed body: the engine as the failure left it, the
   guard dropped, the lock poisoned *)
Unwind(t, e) ==
    /\ ewald' = e
    /\ poisoned' = TRUE
    /\ lock' = [writer |-> IF lock.writer = t THEN 0 ELSE lock.writer,
                readers |-> lock.readers \ {t}]
    /\ threads' = [threads EXCEPT ![t].pc = "panicked"]
    /\ UNCHANGED pending

(* ewald.precompute(&system.cell), the first statement of a body *)
PrecomputeStep(t) ==
    /\ threads[t].pc = "precompute"
    /\ \E p \in {Precompute(ewald, threads[t].system.cell)} :
           IF p.ok
           THEN /\ ewald' = p.ewald
                /\ threads' = [threads EXCEPT ![t].pc = "density"]
                /\ UNCHANGED <<poisoned, lock, pending>>
           ELSE Unwind(t, p.ewald)
    /\ UNCHANGED <<shared, last, cycle>>

(* density_fft up to its first mem::swap: the phases are built and rho is
   the empty array, the array that was in rho being filled *)
SwapStep(t) ==
    /\ threads[t].pc = "density"
    /\ \E d \in {DensityFftPhases(ewald, threads[t].system)} :
           IF d.ok
           THEN /\ ewald' = [d.ewald EXCEPT !.rho = ZerosC(0)]
                /\ threads' = [threads EXCEPT ![t].pc = "swapped"]
                /\ UNCHANGED <<poisoned, lock, pending>>
           ELSE Unwind(t, d.ewald)
    /\ UNCHANGED <<shared, last, cycle>>

(* the threads, as the body of t's call returns its value *)
Finished(t, value) ==
    [u \in Threads |->
        IF u = t
        THEN [threads[t] EXCEPT
                !.pc = "return",
                !.value = value,
                !.cost = IF threads[t].op = "move_particles_cost"
                         THEN Some([system |-> threads[t].system,
                                    move |-> threads[t].move])
                         ELSE @,
                !.intruded = IF threads[t].op = "move_particles_cost"
                             THEN FALSE ELSE @,
                !.folded = IF threads[t].op = "update" THEN pending ELSE @]
        ELSE [threads[u] EXCEPT
                !.intruded = @ \/ (threads[u].cost # None
                                   /\ threads[t].op \in EvaluationOps)]]

(* the rest of a body holding the write guard, to its return value: the
   array swapped out of rho is back in it when the body is done *)
FinishWrite(t) ==
    /\ threads[t].pc \in {"swapped", "body"}
    /\ threads[t].op \in WriteOps
    /\ \E r \in {BodyOf(threads[t],
                        [ewald EXCEPT !.rho = threads[t].start.rho])} :
           IF r.ok
           THEN /\ ewald' = r.ewald
                /\ threads' = Finished(t, r.value)
                /\ pending' = IF threads[t].op = "move_particles_cost"
                              THEN [by |-> t, system |-> threads[t].system,
                                    move |-> threads[t].move]
                              ELSE pending
                /\ UNCHANGED <<poisoned, lock>>
           ELSE Unwind(t, r.ewald)
    /\ UNCHANGED <<shared, last, cycle>>

(* the body of cutoff or clone, holding the read guard *)
FinishRead(t) ==
    /\ threads[t].pc = "body"
    /\ threads[t].op \in ReadOps
    /\ threads' = [threads EXCEPT ![t] =
            [@ EXCEPT !.pc = "return",
                      !.value = BodyOf(threads[t], ewald).value]]
    /\ UNCHANGED <<ewald, shared, poisoned, last, cycle, lock, pending>>

(* a return that keeps the guard *)
ReleaseKeepingGuard(t) ==
    /\ threads[t].pc = "return"
    /\ threads' = [threads EXCEPT ![t] = Idle(@.calls)]
    /\ UNCHANGED <<ewald, shared, poisoned, last, cycle, lock, pending>>

(* the call returns and its guard is dropped *)
Release(t) ==
    /\ threads[t].pc = "return"
    /\ lock' = [writer |-> IF lock.writer = t THEN 0 ELSE lock.writer,
                readers |-> lock.readers \ {t}]
    /\ threads' = [threads EXCEPT ![t] =
            [Idle(@.calls) EXCEPT
                !.cost = IF threads[t].op = "update" THEN None
                         ELSE threads[t].cost,
                !.intruded = IF threads[t].op = "update" THEN FALSE
                             ELSE threads[t].intruded]]
    /\ UNCHANGED <<ewald, shared, poisoned, last, cycle, pending>>

InitMT ==
    /\ \E cutoff \in Cutoffs : ewald = New(cutoff, KmaxMT)
    /\ shared = TRUE
    /\ poisoned = FALSE
    /\ last = Call("share", TRUE, NoValue, NoMove, NoValue)
    /\ cycle = Cycle("Initial", "", NoValue, NoMove, 0)
    /\ lock = Unlocked
    /\ threads = [t \in Threads |-> Idle(0)]
    /\ pending = NoPending

NextMT ==
    \E t \in Threads :
        \/ \E c \in Menu : CallWrite(t, c)
        \/ \E c \in Menu : CallRead(t, c)
        \/ PrecomputeStep(t)
        \/ SwapStep(t)
        \/ FinishWrite(t)
        \/ FinishRead(t)
        \/ Release(t)

SpecMT == InitMT /\ [][NextMT]_vars

(* a step of the thread t inside a call: no body waits for anything once it
   has its guard, so a thread in a call keeps running to its return *)
ThreadStep(t) ==
    \/ PrecomputeStep(t)
    \/ SwapStep(t)
    \/ FinishWrite(t)
    \/ FinishRead(t)
    \/ Release(t)

SpecMTFair == SpecMT /\ \A t \in Threads : WF_vars(ThreadStep(t))

----------------------------------------------------------------------------
(* The parallel region of kspace_virial.  The threads are the workers of
   the pool; `pending` is the region: its system, the tasks nobody has
   taken, and the partial matrices returned so far.  The k-points are
   dealt to the workers by planes of ikx: a task is one plane, any worker
   may take any task at any time, and it goes through the rows of its
   plane while the other workers go through theirs. *)
ParSystems ==
    {SysA(Cubic), SysB(Flat), SysA(Flat), SysA(InfiniteCell)}
    \cup {Moved(SysA(Cubic), m.idxes, m.newpos) : m \in MovesA}

Region(system, todo, done) ==
    [system |-> system, todo |-> todo, done |-> done, joined |-> FALSE]

(* the parallel map has started and its sum is not taken yet *)
RegionOpen == IF pending = NoPending THEN FALSE ELSE ~pending.joined

Tasks(e) == 0..(e.kmax - 1)

(* the matrix of one k-point: the closure given to the outer par_map, with
   the sum of its inner par_map over the particles *)
KspaceVirialAt(e, system, ik) ==
    IF Negligible(e.expfactors[ik]) THEN MZero
    ELSE MSumRange(LAMBDA i :
            MSumRange(LAMBDA j :
                Tensorial(KspacePairForceAt(e, system, ik, i, j),
                          NearestImage(system, i, j)),
                i + 1, Size(system) - 1),
            0, Size(system) - 1)

(* kspace_virial up to the parallel map: precompute was done by virial,
   density_fft is the first statement *)
ParStart(system) ==
    /\ ~RegionOpen
    /\ \E p \in {Precompute(ewald, system.cell)} :
           IF ~p.ok
           THEN /\ ewald' = p.ewald
                /\ last' = Call("kspace_virial", FALSE, system, NoMove, NoValue)
                /\ pending' = NoPending
           ELSE \E d \in {DensityFft(p.ewald, system)} :
                /\ ewald' = d.ewald
                /\ last' = Call("density_fft", d.ok, system, NoMove, NoValue)
                /\ pending' = IF d.ok
                              THEN Region(system, Tasks(d.ewald), << >>)
                              ELSE NoPending
    /\ UNCHANGED <<shared, poisoned, cycle, lock, threads>>

(* a worker takes a task *)
TaskTake(w, ikx) ==
    /\ RegionOpen
    /\ ikx \in pending.todo
    /\ threads[w].pc = "idle"
    /\ threads' = [threads EXCEPT ![w] =
            [Idle(0) EXCEPT !.pc = "body", !.op = "kspace_virial",
                            !.arg = <<ikx, 0>>, !.value = MZero]]
    /\ pending' = [pending EXCEPT !.todo = @ \ {ikx}]
    /\ UNCHANGED <<ewald, shared, poisoned, last, cycle, lock>>

(* a task that reuses the phases of the first particle as scratch space *)
TaskStepScratchingPhases(w) ==
    /\ threads[w].pc = "body"
    /\ threads[w].arg[2] < ewald.kmax
    /\ \E ikx \in {threads[w].arg[1]}, iky \in {threads[w].arg[2]} :
       \E m \in {MSumRange(LAMBDA ikz :
                    KspaceVirialAt(ewald, pending.system, <<ikx, iky, ikz>>),
                    0, ewald.kmax - 1)} :
           threads' = [threads EXCEPT ![w] =
                [@ EXCEPT !.arg = <<ikx, iky + 1>>,
                          !.value = MAdd(threads[w].value, m)]]
    /\ ewald' = [ewald EXCEPT !.fourier_phases =
                    [x \in DOMAIN @ |-> IF x[2] = 0 THEN Polar1(0) ELSE @[x]]]
    /\ UNCHANGED <<shared, poisoned, last, cycle, lock, pending>>

(* the task runs the closure on the k-points of the next row of its plane
   and adds their matrices to its own *)
TaskStep(w) ==
    /\ threads[w].pc = "body"
    /\ threads[w].arg[2] < ewald.kmax
    /\ \E ikx \in {threads[w].arg[1]}, iky \in {threads[w].arg[2]} :
       \E m \in {MSumRange(LAMBDA ikz :
                    KspaceVirialAt(ewald, pending.system, <<ikx, iky, ikz>>),
                    0, ewald.kmax - 1)} :
           threads' = [threads EXCEPT ![w] =
                [@ EXCEPT !.arg = <<ikx, iky + 1>>,
                          !.value = MAdd(threads[w].value, m)]]
    /\ UNCHANGED <<ewald, shared, poisoned, last, cycle, lock, pending>>

(* the task returns its matrix *)
TaskFinish(w) ==
    /\ threads[w].pc = "body"
    /\ threads[w].arg[2] = ewald.kmax
    /\ pending' = [pending EXCEPT
            !.done = @ @@ (threads[w].arg[1] :> threads[w].value)]
    /\ threads' = [threads EXCEPT ![w] = Idle(0)]
    /\ UNCHANGED <<ewald, shared, poisoned, last, cycle, lock>>

(* the sum() of the outer map: the matrices of all the tasks are added *)
ParJoin ==
    /\ RegionOpen
    /\ pending.todo = {}
    /\ \A w \in Threads : threads[w].pc = "idle"
    /\ last' = Call("kspace_virial", TRUE, pending.system, NoMove,
                    MSumRange(LAMBDA ikx : pending.done[ikx],
                              0, ewald.kmax - 1))
    /\ pending' = [pending EXCEPT !.joined = TRUE]
    /\ UNCHANGED <<ewald, shared, poisoned, cycle, lock, threads>>

InitPar ==
    /\ \E cutoff \in Cutoffs : ewald = New(cutoff, KmaxMT)
    /\ shared = FALSE
    /\ poisoned = FALSE
    /\ last = Call("new", TRUE, NoValue, NoMove, NoValue)
    /\ cycle = Cycle("Initial", "", NoValue, NoMove, 0)
    /\ lock = Unlocked
    /\ threads = [t \in Threads |-> Idle(0)]
    /\ pending = NoPending

NextPar ==
    \/ \E system \in ParSystems : ParStart(system)
    \/ \E w \in Threads : \E ikx \in 0..(KmaxMT - 1) : TaskTake(w, ikx)
    \/ \E w \in Threads : TaskStep(w)
    \/ \E w \in Threads : TaskFinish(w)
    \/ ParJoin

SpecPar == InitPar /\ [][NextPar]_vars

----------------------------------------------------------------------------
(* What the properties below compare the engine against: the quantities of
   the Ewald sum written directly from the positions. *)

(* q_j exp(-2 pi i k . s_j) summed over the particles, at every stored k *)
FourierDensity(kmax, system) ==
    [ik \in Idx3(kmax) |->
        CSumRange(LAMBDA j :
            CScale(Charge(system, j),
                   Polar1(SumInt(LAMBDA a : ik[a + 1]
                                    * PhaseTurns(system.cell, Position(system, j), a),
                                 0, 2))),
            0, Size(system) - 1)]

(* q_i (new phase - old phase) summed over the moved particles *)
PendingChange(kmax, system, move) ==
    [ik \in Idx3(kmax) |->
        CSumRange(LAMBDA idx :
            CScale(Charge(system, move.idxes[idx]),
                   CSub(Polar1(SumInt(LAMBDA a : ik[a + 1]
                                * PhaseTurns(system.cell, move.newpos[idx], a),
                                0, 2)),
                        Polar1(SumInt(LAMBDA a : ik[a + 1]
                                * PhaseTurns(system.cell,
                                      Position(system, move.idxes[idx]), a),
                                0, 2)))),
            0, Len0(move.idxes) - 1)]

(* a == b on f64 values: never true of a NaN *)
FEq(a, b) == a.cls \notin {"nan", "panic"} /\ a = b

(* the entry points that evaluate a system *)
SystemOps == {"energy", "forces", "virial", "move_particles_cost"}

CostReturned == last.op = "move_particles_cost" /\ last.ok

(* no term of the value x is a self-energy term *)
NoSelfTerm(x) == x.cls = "fin" => \A t \in DOMAIN x.sum : t[1] # "self"

SumOfSquaredCharges(system) ==
    SumInt(LAMBDA i : Charge(system, i) * Charge(system, i), 0, Size(system) - 1)

----------------------------------------------------------------------------
(* C1: for every system on an orthorhombic cell, every list of distinct
   particle indices in any order and every list of new positions, the value
   move_particles_cost returns equals energy(S') - energy(S), S' the system
   with the listed particles moved. *)
C1_CostIsEnergyDifference ==
    CostReturned =>
        LET old_e == EnergyBody(ewald, last.system)
            new_e == EnergyBody(ewald, Moved(last.system, last.move.idxes,
                                             last.move.newpos))
        IN  /\ old_e.ok
            /\ new_e.ok
            /\ FEq(last.value, FSub(new_e.value, old_e.value))

(* C2: whenever move_particles_cost has returned, from whatever state it was
   called in, and until update or another evaluation is called, rho is the
   Fourier density of the pre-move positions and delta_rho is, at every
   stored k, the sum over the moved particles of charge times (new phase -
   old phase). *)
C2_PendingDensity ==
    cycle.state = "Pending" =>
        /\ ewald.rho = FourierDensity(ewald.kmax, cycle.system)
        /\ ewald.delta_rho = PendingChange(ewald.kmax, cycle.system, cycle.move)

(* C2 witness: a cost asked right after a committed move, then a call that
   is no evaluation, with a pending change that is not zero. *)
C2_Witness ==
    /\ cycle.state = "Pending"
    /\ cycle.from = "Committed"
    /\ last.op = "set_restriction"
    /\ \E ik \in Idx3(ewald.kmax) : ewald.delta_rho[ik] # CZero

(* C3: after update called right after move_particles_cost (state
   Committed), rho is at every stored index, those with a zero expfactors
   entry included, the density of the system with the particles moved. *)
C3_CommittedDensity ==
    cycle.state = "Committed" =>
        ewald.rho = FourierDensity(ewald.kmax,
                        Moved(cycle.system, cycle.move.idxes, cycle.move.newpos))

(* C3 witness: a committed move that changed rho at an index whose
   expfactors entry is zero. *)
C3_Witness ==
    /\ cycle.state = "Committed"
    /\ last.op = "update"
    /\ \E ik \in Idx3(ewald.kmax) :
        /\ ewald.expfactors[ik] = ZeroFactor
        /\ ewald.delta_rho[ik] # CZero

(* a thread between taking its guard and dropping it *)
InBody(t) ==
    threads[t].pc \in {"precompute", "density", "swapped", "body", "return"}

UpdateReturned(t) == threads[t].pc = "return" /\ threads[t].op = "update"

(* C4, as claimed: a trial-move cycle is atomic.  No evaluation of another
   thread takes effect between a thread's move_particles_cost and its
   update, and the delta_rho its update folds is the one its own
   move_particles_cost computed. *)
C4_CycleAtomic ==
    \A t \in Threads :
        (UpdateReturned(t) /\ threads[t].cost # None) =>
            /\ ~threads[t].intruded
            /\ threads[t].folded.by = t

(* C4, amended: update holds the write guard for its whole body and adds
   to rho, at every stored index, the delta_rho of the last
   move_particles_cost that returned on the engine, whichever thread called
   it (nothing when none has); the guard is not held from
   move_particles_cost to update. *)
C4_UpdateFoldsLastCost ==
    \A t \in Threads :
        UpdateReturned(t) =>
            /\ lock.writer = t
            /\ threads[t].folded = pending
            /\ ewald.rho =
                [ik \in Idx3(ewald.kmax) |->
                    CAdd(threads[t].start.rho[ik],
                         IF pending.by = 0 THEN CZero
                         ELSE PendingChange(ewald.kmax, pending.system,
                                            pending.move)[ik])]

(* C4 witness: a thread's update folded the move of another thread, whose
   move_particles_cost returned after its own. *)
C4_Witness ==
    \E t \in Threads :
        /\ UpdateReturned(t)
        /\ threads[t].cost # None
        /\ threads[t].folded.by \notin {0, t}
        /\ threads[t].folded.move # threads[t].cost[1].move
        /\ ewald.rho # threads[t].start.rho

(* C5: an entry point that takes the write guard holds it from its first
   access to the engine until it returns: while it runs no other thread is
   inside an entry point, the engine changes only under the write guard,
   and what clone reads is never an engine with rho swapped out. *)
C5_WriteGuardHeld ==
    /\ [](\A t \in Threads :
            /\ (InBody(t) /\ threads[t].op \in WriteOps) =>
                    /\ lock.writer = t
                    /\ \A u \in Threads \ {t} : ~InBody(u)
            /\ (threads[t].pc = "return" /\ threads[t].op = "clone") =>
                    DOMAIN threads[t].value.rho = Idx3(threads[t].value.kmax))
    /\ [][ewald' # ewald =>
            /\ lock.writer # 0
            /\ threads[lock.writer].pc # threads'[lock.writer].pc]_vars

(* C5 witness: a thread inside density_fft, rho swapped out for the empty
   array, while another thread has a call to make and no guard to get. *)
C5_Witness ==
    \E t, u \in Threads :
        /\ threads[t].pc = "swapped"
        /\ DOMAIN ewald.rho = {}
        /\ MayCall(u)
        /\ ~CanRead(lock)

(* C6: energy, forces, virial and move_particles_cost fail fatally on an
   infinite or triclinic cell in every engine state, the states left by
   successful evaluations on an orthorhombic cell included. *)
C6_NonOrthorhombicFails ==
    /\ (last.op \in SystemOps /\ last.system.cell.shape # "Orthorhombic")
            => ~last.ok
    /\ shared =>
        \A cell \in BadCells :
            /\ ~EnergyBody(ewald, SysA(cell)).ok
            /\ ~ForcesBody(ewald, SysA(cell)).ok
            /\ ~VirialBody(ewald, SysA(cell)).ok
            /\ ~MoveParticlesCostBody(ewald, SysA(cell), Arr(<<0>>),
                                      Arr(<<Vec(2, 2, 0)>>)).ok

(* C6 witness: a trial move on a triclinic cell fails on an engine whose
   cached cell is the orthorhombic cell of the same lengths. *)
C6_Witness ==
    /\ last.op = "move_particles_cost"
    /\ ~last.ok
    /\ last.system.cell = Triclinic(8, 8, 8)
    /\ ewald.previous_cell = Some(Cubic)
    /\ ewald.kmax = MaxKmax

(* C7: alpha > 0 in every reachable state; set_alpha fails for every
   argument that is not positive (NaN included) and then leaves the engine
   as it was, and no other operation writes alpha. *)
C7_AlphaPositive ==
    /\ [](/\ ewald.alpha > 0
          /\ last.op = "set_alpha" =>
                (last.ok <=> (~last.value.nan /\ last.value.v > 0)))
    /\ [][/\ (last'.op = "set_alpha" /\ ~last'.ok) => ewald' = ewald
          /\ last'.op # "set_alpha" => ewald'.alpha = ewald.alpha]_vars

(* C7 witness: set_alpha(NaN) failed on an engine whose alpha had been set. *)
C7_Witness ==
    /\ last.op = "set_alpha"
    /\ ~last.ok
    /\ last.value = F64NaN
    /\ ewald.alpha = 10

(* C8: with rc > 0, any kmax > 0 (1 included) and restriction None, energy,
   forces, virial and move_particles_cost return on every system of at
   least one particle on an orthorhombic cell. *)
C8_PositiveKmaxReturns ==
    (/\ last.op \in SystemOps
     /\ ewald.kmax > 0
     /\ ewald.restriction = "None"
     /\ last.system.cell.shape = "Orthorhombic"
     /\ Size(last.system) >= 1) => last.ok

(* C9: energy returns real + self + k-space + molecular correction; forces,
   virial and move_particles_cost return the sum of their real-space, k-space
   and molecular-correction terms, in which the self term has no part. *)
C9_TotalsAreSums ==
    /\ (last.op = "energy" /\ last.ok) =>
        /\ last.value =
            FAdd(FAdd(FAdd(RealSpaceEnergy(ewald, last.system),
                           SelfEnergy(ewald, last.system)),
                      KspaceEnergy(ewald, last.system).value),
                 MolcorrectEnergy(ewald, last.system))
        /\ last.value.cls = "fin" =>
            FsCoef(last.value.sum, <<"self", ewald.alpha, 0, 0>>)
                = -SumOfSquaredCharges(last.system)
    /\ (last.op = "forces" /\ last.ok) =>
        \A i \in 0..(Size(last.system) - 1) :
            /\ last.value[i] =
                VAdd(VAdd(RealSpaceForces(ewald, last.system)[i],
                          KspaceForces(ewald, last.system).value[i]),
                     MolcorrectForces(ewald, last.system)[i])
            /\ \A a \in Axes : NoSelfTerm(last.value[i][a])
    /\ (last.op = "virial" /\ last.ok) =>
        /\ last.value =
            MAdd(MAdd(RealSpaceVirial(ewald, last.system),
                      KspaceVirial(ewald, last.system).value),
                 MolcorrectVirial(ewald, last.system))
        /\ \A ab \in Axes \X Axes : NoSelfTerm(last.value[ab])
    /\ CostReturned =>
        /\ last.value =
            FAdd(FAdd(RealSpaceMoveParticlesCost(ewald, last.system,
                          last.move.idxes, last.move.newpos),
                      KspaceMoveParticlesCost(ewald, last.system,
                          last.move.idxes, last.move.newpos).value),
                 MolcorrectMoveParticlesCost(ewald, last.system,
                          last.move.idxes, last.move.newpos))
        /\ NoSelfTerm(last.value)

(* C9 witness: an energy in which the four terms are all present. *)
C9_Witness ==
    /\ last.op = "energy"
    /\ last.ok
    /\ RealSpaceEnergy(ewald, last.system) # FZero
    /\ SelfEnergy(ewald, last.system) # FZero
    /\ KspaceEnergy(ewald, last.system).value # FZero
    /\ MolcorrectEnergy(ewald, last.system) # FZero

(* C10: precompute called twice in a row with one orthorhombic cell leaves
   previous_cell, kmax2 and expfactors as the first call left them; the
   second call changes no field of the engine. *)
C10_PrecomputeIdempotent ==
    \A cell \in {Cubic, Flat} :
        LET first == Precompute(ewald, cell)
            second == Precompute(first.ewald, cell)
        IN  first.ok =>
                /\ second.ok
                /\ second.ewald = first.ewald
                /\ first.ewald.previous_cell = Some(cell)
                /\ first.ewald.kmax2 = Kmax2(ewald, cell)

(* C10 witness: an engine whose tables were built for one cell, on which a
   first call for another cell rebuilds expfactors. *)
C10_Witness ==
    /\ ewald.previous_cell = Some(Flat)
    /\ last.ok
    /\ Precompute(ewald, Flat).ewald = ewald
    /\ Precompute(ewald, Cubic).ewald.expfactors # ewald.expfactors
----------------------------------------------------------------------------
(* the tables of the engine e are those precompute builds from the cell in
   previous_cell and e's alpha and kmax *)
UpToDate(e) ==
    e.previous_cell # None =>
        /\ e.kmax2 = Kmax2(e, e.previous_cell[1])
        /\ e.expfactors = FillExpFactors(e, e.previous_cell[1], e.kmax2)

(* the values alpha can take *)
Alphas ==
    {DefaultAlpha(cutoff) : cutoff \in Cutoffs}
    \cup {alpha.v : alpha \in {a \in AlphaArgs : AlphaPositive(a)}}

(* C11, as claimed: in every reachable state, if previous_cell is the cell
   evaluated then expfactors and kmax2 are what precompute would build from
   that cell and the current alpha and kmax, set_alpha called after a
   precompute on the same cell included. *)
C11_TablesUpToDate == UpToDate(ewald)

(* C11, amended: kmax2 is always that of previous_cell, and expfactors is
   what precompute builds from previous_cell, kmax and the alpha of the
   call that built it; the tables stop being up to date only by a set_alpha
   on an engine whose previous_cell is recorded, which does not rebuild
   them, and every other call keeps them up to date. *)
C11_TablesUpToDateUnlessAlphaSet ==
    /\ [](ewald.previous_cell # None =>
            /\ ewald.kmax2 = Kmax2(ewald, ewald.previous_cell[1])
            /\ \E a \in Alphas :
                    UpToDate([ewald EXCEPT !.alpha = a]))
    /\ [][(UpToDate(ewald)
            /\ ~(last'.op = "set_alpha" /\ ewald.previous_cell # None))
                => UpToDate(ewald')]_vars

(* C11 witness: an energy returned by an engine whose alpha was set before
   it was wrapped, its tables built from that alpha. *)
C11_Witness ==
    /\ last.op = "energy"
    /\ last.ok
    /\ ewald.alpha \notin {DefaultAlpha(cutoff) : cutoff \in Cutoffs}
    /\ ewald.previous_cell = Some(last.system.cell)
    /\ UpToDate(ewald)
    /\ \E ik \in Idx3(ewald.kmax) : ewald.expfactors[ik] # ZeroFactor

----------------------------------------------------------------------------
(* the queries of GlobalPotential on a system *)
Queries == {"energy", "forces", "virial"}

(* an engine with the parameters of e on which nothing was evaluated *)
CleanEngine(e) ==
    [New(e.rc, e.kmax) EXCEPT !.alpha = e.alpha, !.restriction = e.restriction]

(* the move t[2] of the system t[1] is pending in the engine e *)
IsPending(e, t) ==
    /\ e.delta_rho = PendingChange(e.kmax, t[1], t[2])
    /\ \E ik \in Idx3(e.kmax) : e.delta_rho[ik] # CZero

(* C12: while a move is pending and the positions are those of the system
   the cost was asked on, energy, forces and virial return what they return
   on a clean engine for that system, leave delta_rho as it is and rho the
   density of the system, so that an update after any number of them
   commits the pending move. *)
C12_QueriesKeepPendingMove ==
    [][\A t \in Trials :
        (/\ last'.op \in Queries
         /\ last'.system = t[1]
         /\ last'.ok
         /\ IsPending(ewald, t))
        => /\ last'.value = BodyOf(last', CleanEngine(ewald)).value
           /\ ewald'.delta_rho = ewald.delta_rho
           /\ ewald'.rho = FourierDensity(ewald.kmax, t[1])
           /\ UpdateBody(ewald').ewald.rho =
                FourierDensity(ewald.kmax,
                               Moved(t[1], t[2].idxes, t[2].newpos))]_vars

(* C12 witness: a query has returned on the system of a move that is still
   pending. *)
C12_Witness ==
    /\ last.op \in Queries
    /\ last.ok
    /\ cycle.state = "Clean"
    /\ \E t \in Trials : last.system = t[1] /\ IsPending(ewald, t)

----------------------------------------------------------------------------
(* C13: with the restriction None (the restriction of Ewald::new) no pair
   is excluded: for every system the kernels are reached on (precompute
   lets orthorhombic cells only through) the molecular-correction energy
   is 0, its forces, virial and move cost are zero, and no assertion of
   the molecular-correction kernels fails. *)
C13_NoCorrectionWithoutRestriction ==
    ewald.restriction = "None" =>
        /\ \A system \in {s \in Systems : s.cell.shape = "Orthorhombic"} :
            /\ MolcorrectEnergy(ewald, system) = FZero
            /\ \A i \in 0..(Size(system) - 1) :
                    MolcorrectForces(ewald, system)[i] = VZero
            /\ MolcorrectVirial(ewald, system) = MZero
        /\ \A t \in {u \in Trials : u[1].cell.shape = "Orthorhombic"} :
                MolcorrectMoveParticlesCost(ewald, t[1], t[2].idxes, t[2].newpos)
                    = FZero

(* C13 witness: an energy returned under the restriction None for a system
   with a bonded pair, which another restriction would exclude. *)
C13_Witness ==
    /\ ewald.restriction = "None"
    /\ last.op = "energy"
    /\ last.ok
    /\ last.value.cls = "fin"
    /\ last.value.sum # FsZero
    /\ MolcorrectEnergy([ewald EXCEPT !.restriction = "InterMolecular"],
                        last.system) # FZero

----------------------------------------------------------------------------
(* C14: once an entry point has failed holding the guard the lock is
   poisoned for good: every later call of any thread, cutoff, clone,
   set_restriction and update included, fails at read() or write(), returns
   no value and leaves the engine as the failure left it. *)
C14_PoisonedForGood ==
    /\ [](poisoned =>
            /\ lock = Unlocked
            /\ \A t \in Threads : threads[t].pc \in {"idle", "panicked"})
    /\ [][poisoned =>
            /\ poisoned'
            /\ ewald' = ewald
            /\ \A t \in Threads :
                    threads'[t] # threads[t] =>
                        /\ threads[t].pc = "idle"
                        /\ threads'[t].pc = "panicked"
                        /\ threads'[t].value = NoValue]_vars

(* C14 witness: an energy on a triclinic cell has failed in one thread, and
   a later call of another thread that has no failure of its own has failed
   on the poisoned lock. *)
C14_Witness ==
    /\ poisoned
    /\ \E t \in Threads, u \in Threads :
        /\ threads[t].pc = "panicked"
        /\ threads[t].op = "energy"
        /\ threads[t].system.cell.shape = "Triclinic"
        /\ threads[u].pc = "panicked"
        /\ threads[u].op \in {"cutoff", "clone", "set_restriction", "update"}

----------------------------------------------------------------------------
(* the sum of the vectors forces[0], ..., forces[n - 1] *)
TotalForce(forces) ==
    VSumRange(LAMBDA i : forces[i], 0, Len0(forces) - 1)

ForcesReturned == last.op = "forces" /\ last.ok

(* C15: every pair adds a force to forces[i] and the opposite force to
   forces[j] in the real-space, k-space and molecular-correction kernels,
   so the forces of each kernel and the forces returned by forces() sum to
   zero over the particles. *)
C15_ForcesSumToZero ==
    ForcesReturned =>
        /\ TotalForce(last.value) = VZero
        /\ TotalForce(RealSpaceForces(ewald, last.system)) = VZero
        /\ TotalForce(KspaceForces(ewald, last.system).value) = VZero
        /\ TotalForce(MolcorrectForces(ewald, last.system)) = VZero

(* C15 witness: forces returned with a non-zero contribution of each of
   the three kernels on a particle. *)
C15_Witness ==
    /\ ForcesReturned
    /\ \E i \in DOMAIN last.value :
        /\ RealSpaceForces(ewald, last.system)[i] # VZero
        /\ KspaceForces(ewald, last.system).value[i] # VZero
        /\ MolcorrectForces(ewald, last.system)[i] # VZero
        /\ last.value[i] # VZero

----------------------------------------------------------------------------
(* the system made of particles i and j of `system` alone, in this order *)
PairOf(system, i, j) ==
    [cell |-> system.cell,
     q |-> Arr(<<system.q[i], system.q[j]>>),
     mol |-> Arr(<<system.mol[i], system.mol[j]>>),
     pos |-> Arr(<<system.pos[i], system.pos[j]>>)]

(* minus the sum over the pairs i < j of F(i, j) tensor r_ij *)
MinusSumOverPairs(system, F(_, _)) ==
    MNeg(MSumRange(LAMBDA i :
            MSumRange(LAMBDA j :
                Tensorial(F(i, j), NearestImage(system, i, j)),
                i + 1, Size(system) - 1),
            0, Size(system) - 1))

(* the vector from particle 0 to particle 1 of a two-particle system,
   under the minimum image: r_1 - r_0 = -r_01 *)
Separation(pair) == [a \in Axes |-> 0 - NearestImage(pair, 0, 1)[a]]

VirialReturned == last.op = "virial" /\ last.ok

(* C16: the virial of each kernel, and the virial returned by virial(),
   is minus the sum over the pairs i < j of (the force the forces kernel
   gives particle i for the pair, read as forces[0] of the kernel run on
   the pair alone) tensor r_ij; on a two-particle system the virial is
   forces[0] tensor the separation vector r_1 - r_0. *)
C16_VirialIsMinusPairForceTensorRij ==
    VirialReturned =>
        LET s == last.system IN
        /\ RealSpaceVirial(ewald, s) =
            MinusSumOverPairs(s, LAMBDA i, j :
                RealSpaceForces(ewald, PairOf(s, i, j))[0])
        /\ KspaceVirial(ewald, s).value =
            MinusSumOverPairs(s, LAMBDA i, j :
                KspaceForces(ewald, PairOf(s, i, j)).value[0])
        /\ MolcorrectVirial(ewald, s) =
            MinusSumOverPairs(s, LAMBDA i, j :
                MolcorrectForces(ewald, PairOf(s, i, j))[0])
        /\ last.value =
            MinusSumOverPairs(s, LAMBDA i, j :
                ForcesBody(ewald, PairOf(s, i, j)).value[0])
        /\ \A i \in DOMAIN s.q, j \in DOMAIN s.q :
            i < j =>
                LET pair == PairOf(s, i, j) IN
                /\ RealSpaceVirial(ewald, pair) =
                    Tensorial(RealSpaceForces(ewald, pair)[0],
                              Separation(pair))
                /\ KspaceVirial(ewald, pair).value =
                    Tensorial(KspaceForces(ewald, pair).value[0],
                              Separation(pair))
                /\ MolcorrectVirial(ewald, pair) =
                    Tensorial(MolcorrectForces(ewald, pair)[0],
                              Separation(pair))
                /\ VirialBody(ewald, pair).ok
                /\ VirialBody(ewald, pair).value =
                    Tensorial(ForcesBody(ewald, pair).value[0],
                              Separation(pair))

(* C16 witness: a virial returned with a non-zero contribution of each of
   the three kernels and a non-zero total. *)
C16_Witness ==
    /\ VirialReturned
    /\ RealSpaceVirial(ewald, last.system) # MZero
    /\ KspaceVirial(ewald, last.system).value # MZero
    /\ MolcorrectVirial(ewald, last.system) # MZero
    /\ last.value # MZero

----------------------------------------------------------------------------
(* real_space_energy(S') - real_space_energy(S) for the move last asked *)
RealSpaceEnergyDifference ==
    FSub(RealSpaceEnergy(ewald, Moved(last.system, last.move.idxes,
                                      last.move.newpos)),
         RealSpaceEnergy(ewald, last.system))

(* C17: for every list of distinct indices, real_space_move_particles_cost
   is the difference of real_space_energy after and before the move, every
   pair with a moved particle being visited once, also when the list does
   not start at particle 0. *)
C17_RealSpaceCostIsEnergyDifference ==
    CostReturned =>
        FEq(RealSpaceMoveParticlesCost(ewald, last.system, last.move.idxes,
                                       last.move.newpos),
            RealSpaceEnergyDifference)

----------------------------------------------------------------------------
(* molcorrect_energy(S') - molcorrect_energy(S) for the move last asked *)
MolcorrectEnergyDifference ==
    FSub(MolcorrectEnergy(ewald, Moved(last.system, last.move.idxes,
                                       last.move.newpos)),
         MolcorrectEnergy(ewald, last.system))

(* C18: for every list of distinct indices, molcorrect_move_particles_cost
   is the difference of molcorrect_energy after and before the move, every
   excluded pair with a moved particle being visited once, also when both
   particles of the pair are moved and are not the first of the system. *)
C18_MolcorrectCostIsEnergyDifference ==
    CostReturned =>
        FEq(MolcorrectMoveParticlesCost(ewald, last.system, last.move.idxes,
                                        last.move.newpos),
            MolcorrectEnergyDifference)

----------------------------------------------------------------------------
(* the engine e holding rho in place of its density *)
WithRho(e, rho) == [e EXCEPT !.rho = rho]

(* C19: kspace_move_particles_cost is the difference of kspace_energy after
   and before the move; it rebuilds rho from the positions before the move,
   so its value and the densities it leaves do not depend on the rho held
   when it is called; and rho + delta_rho is then the density of the moved
   system at every k entry whose expfactors value is not negligible. *)
C19_KspaceCostIsEnergyDifference ==
    [][(last'.op = "move_particles_cost" /\ last'.ok) =>
        \E s \in {last'.system}, m \in {last'.move} :
        \E e \in {Precompute(ewald, s.cell).ewald},
           moved \in {Moved(s, m.idxes, m.newpos)} :
        \E cost \in {KspaceMoveParticlesCost(e, s, m.idxes, m.newpos)},
           density \in {FourierDensity(e.kmax, moved)} :
            /\ FEq(cost.value, FSub(KspaceEnergy(e, moved).value,
                                    KspaceEnergy(e, s).value))
            /\ \A rho \in {[ik \in Idx3(e.kmax) |-> CZero], density} :
                KspaceMoveParticlesCost(WithRho(e, rho), s, m.idxes, m.newpos)
                    = cost
            /\ ewald'.rho = cost.ewald.rho
            /\ ewald'.delta_rho = cost.ewald.delta_rho
            /\ \A ik \in Idx3(e.kmax) :
                ~Negligible(ewald'.expfactors[ik]) =>
                    CAdd(ewald'.rho[ik], ewald'.delta_rho[ik]) = density[ik]]_vars

(* C19 witness: a cost returned, asked right after a committed move (rho
   was then the density of another configuration), with a k-space part
   that is not zero and a change of density at a non-negligible k entry. *)
C19_Witness ==
    /\ CostReturned
    /\ cycle.state = "Pending"
    /\ cycle.from = "Committed"
    /\ ewald.rho # FourierDensity(ewald.kmax,
                      Moved(last.system, last.move.idxes, last.move.newpos))
    /\ KspaceMoveParticlesCost(ewald, last.system, last.move.idxes,
                               last.move.newpos).value \notin {FZero, FPanic}
    /\ \E ik \in Idx3(ewald.kmax) :
        /\ ~Negligible(ewald.expfactors[ik])
        /\ ewald.delta_rho[ik] # CZero

----------------------------------------------------------------------------
(* C20: the move-cost loops skip the pairs with a zero charge as the
   energy loops do: when move_particles_cost is called, its real-space and
   k-space parts run, and molcorrect_energy runs without failure on the
   system before and after the move (its excluded pairs at a distance
   >= rc having a neutral particle), then molcorrect_move_particles_cost
   runs without failure too. *)
C20_CostSkipsNeutralPairs ==
    LET s == last.system
        m == last.move
    IN  (/\ last.op = "move_particles_cost"
         /\ Precompute(ewald, s.cell).ok
         /\ ~IsPanic(RealSpaceMoveParticlesCost(ewald, s, m.idxes, m.newpos))
         /\ ~IsPanic(KspaceMoveParticlesCost(ewald, s, m.idxes,
                                             m.newpos).value)
         /\ ~IsPanic(MolcorrectEnergy(ewald, s))
         /\ ~IsPanic(MolcorrectEnergy(ewald,
                        Moved(s, m.idxes, m.newpos))))
        => ~IsPanic(MolcorrectMoveParticlesCost(ewald, s, m.idxes, m.newpos))

----------------------------------------------------------------------------
(* a pair of charged particles of s within the cutoff that the restriction
   of e keeps with a scaling other than 1 *)
HasScaledPair(e, s) ==
    \E i \in DOMAIN s.q, j \in DOMAIN s.q :
        /\ i < j
        /\ Charge(s, i) # 0
        /\ Charge(s, j) # 0
        /\ ~Information(e.restriction, BondDistance(s, i, j)).excluded
        /\ Information(e.restriction, BondDistance(s, i, j)).scaling # 1
        /\ Distance2(s, i, j) <= e.rc * e.rc

(* C21: under a restriction that gives a scaling other than 1 to a pair of
   charged particles that is not excluded and within the cutoff, energy,
   forces, virial and move_particles_cost (the pair at its old or at its
   new place) fail and return no value. *)
C21_ScalingIsFatal ==
    (/\ last.op \in SystemOps
     /\ last.system.cell.shape = "Orthorhombic"
     /\ \/ HasScaledPair(ewald, last.system)
        \/ /\ last.op = "move_particles_cost"
           /\ HasScaledPair(ewald, Moved(last.system, last.move.idxes,
                                         last.move.newpos)))
    => ~last.ok

----------------------------------------------------------------------------
(* an excluded pair of charged particles of s at a distance >= rc *)
ExcludedPairApart(e, s, i, j) ==
    /\ i # j
    /\ Charge(s, i) # 0
    /\ Charge(s, j) # 0
    /\ Information(e.restriction, BondDistance(s, i, j)).excluded
    /\ Distance2(s, i, j) >= e.rc * e.rc

(* the call last made reached its kernels: the lock, the cell and kmax let
   it through *)
KernelsReached ==
    /\ last.op \in SystemOps
    /\ last.system.cell.shape = "Orthorhombic"
    /\ ewald.kmax >= 2

(* C22: with a restriction that excludes pairs, energy, forces and virial
   fail when an excluded pair of charged particles is at a distance >= rc,
   and move_particles_cost fails when such a pair with a moved particle is
   at a distance >= rc at the old or at the new positions. *)
C22_ExcludedPairApartIsFatal ==
    KernelsReached =>
        LET s == last.system
            m == last.move
            after == Moved(s, m.idxes, m.newpos)
        IN  /\ (/\ last.op # "move_particles_cost"
                /\ \E i \in DOMAIN s.q, j \in DOMAIN s.q :
                        ExcludedPairApart(ewald, s, i, j))
               => ~last.ok
            /\ (/\ last.op = "move_particles_cost"
                /\ \E i \in DOMAIN s.q, j \in DOMAIN s.q :
                    /\ Contains(m.idxes, i)
                    /\ \/ ExcludedPairApart(ewald, s, i, j)
                       \/ ExcludedPairApart(ewald, after, i, j))
               => ~last.ok

----------------------------------------------------------------------------
(* 2 for each of ikx, iky, ikz that is not 0 *)
SymmetryFactor(ik) ==
    (IF ik[1] # 0 THEN 2 ELSE 1) * (IF ik[2] # 0 THEN 2 ELSE 1)
        * (IF ik[3] # 0 THEN 2 ELSE 1)

(* precompute has filled the tables for the cell recorded *)
TablesFilled == ewald.previous_cell # None /\ ewald.kmax >= 1

(* C23: in every reachable state expfactors[0, 0, 0] is 0 and every entry
   whose |k|^2 exceeds kmax2 is 0 (before the first precompute every entry
   is 0); after a precompute every other entry is
   exp(-|k|^2 / (4 alpha^2)) / |k|^2 times 2 for each non-zero index. *)
C23_ExpFactorsTable ==
    /\ ewald.kmax >= 1 => ewald.expfactors[<<0, 0, 0>>].c = 0
    /\ DOMAIN ewald.expfactors = Idx3(ewald.kmax)
    /\ ewald.previous_cell = None =>
        \A ik \in Idx3(ewald.kmax) : ewald.expfactors[ik].c = 0
    /\ TablesFilled =>
        \A ik \in Idx3(ewald.kmax) \ {<<0, 0, 0>>} :
            IF K2(ewald.previous_cell[1], ik) > ewald.kmax2
            THEN ewald.expfactors[ik].c = 0
            ELSE /\ ewald.expfactors[ik].c = SymmetryFactor(ik)
                 /\ ewald.expfactors[ik].k2 = K2(ewald.previous_cell[1], ik)
                 /\ ewald.expfactors[ik].alpha = ewald.alpha

(* C23 witness: tables filled by an evaluation, with an entry cut off by
   kmax2 and entries carrying the factors 2, 4 and 8. *)
C23_Witness ==
    /\ TablesFilled
    /\ last.op \in SystemOps
    /\ last.ok
    /\ \E ik \in Idx3(ewald.kmax) :
        K2(ewald.previous_cell[1], ik) > ewald.kmax2
    /\ \A f \in {2, 4, 8} :
        \E ik \in Idx3(ewald.kmax) : ewald.expfactors[ik].c = f

----------------------------------------------------------------------------
(* the fields of the engine other than rho *)
OtherThanRho(e) ==
    <<e.alpha, e.rc, e.kmax, e.kmax2, e.restriction, e.expfactors,
      e.fourier_phases, e.delta_rho, e.previous_cell>>

(* C24: update changes rho only: alpha, rc, kmax, kmax2, restriction,
   expfactors, fourier_phases, delta_rho and previous_cell are the same
   before and after the call, and rho keeps the shape (kmax, kmax, kmax). *)
C24_UpdateChangesRhoOnly ==
    [][last'.op = "update" =>
        /\ OtherThanRho(ewald') = OtherThanRho(ewald)
        /\ DOMAIN ewald'.rho = Idx3(ewald.kmax)
        /\ DOMAIN ewald'.rho = DOMAIN ewald.rho]_vars

(* C24 witness: an update has returned on an engine with tables and phases
   built, after folding a change of rho that is not zero. *)
C24_Witness ==
    /\ last.op = "update"
    /\ last.ok
    /\ cycle.state = "Committed"
    /\ ewald.previous_cell # None
    /\ DOMAIN ewald.fourier_phases # {}
    /\ \E ik \in Idx3(ewald.kmax) : ewald.delta_rho[ik] # CZero

----------------------------------------------------------------------------
(* C25: a pending change is folded at most once: when update is called
   again after the update that committed a move, with no
   move_particles_cost in between, rho is still the density of the
   committed positions. *)
C25_FoldedAtMostOnce ==
    (/\ cycle.state = "Refolded"
     /\ cycle.move # NoMove
     /\ last.op = "update"
     /\ last.ok)
    => ewald.rho = FourierDensity(ewald.kmax,
                        Moved(cycle.system, cycle.move.idxes,
                              cycle.move.newpos))

----------------------------------------------------------------------------
(* the cached arrays of the engine *)
CachedArrays(e) == <<e.rho, e.delta_rho, e.fourier_phases, e.expfactors>>

(* the thread t takes a step of a call it made with a system: its body ran
   precompute first (the step at "precompute" is precompute itself, which
   leaves rho, delta_rho and fourier_phases alone) *)
AfterPrecompute(t) ==
    /\ threads[t].op \in DensityOps
    /\ \/ /\ threads[t].pc = "precompute"
          /\ ewald'.rho = ewald.rho
          /\ ewald'.delta_rho = ewald.delta_rho
          /\ ewald'.fourier_phases = ewald.fourier_phases
       \/ threads[t].pc \in {"density", "swapped"}

(* C26, as claimed: in every call of energy, forces, virial,
   move_particles_cost and update, no cached array is modified before the
   precompute of that call has completed. *)
C26_PrecomputeBeforeAnyWork ==
    [][\A t \in Threads :
        (lock.writer = t /\ CachedArrays(ewald') # CachedArrays(ewald))
            => AfterPrecompute(t)]_vars

(* C26, amended: energy, forces, virial, move_particles_cost and density_fft
   start with precompute, and modify no cached array and run no kernel
   before it has completed; update calls no precompute and changes rho
   alone. *)
C26_PrecomputeBeforeWorkButUpdate ==
    [][\A t \in Threads :
        /\ (lock.writer = t /\ CachedArrays(ewald') # CachedArrays(ewald))
            => \/ AfterPrecompute(t)
               \/ /\ threads[t].op = "update"
                  /\ threads[t].pc = "body"
                  /\ OtherThanRho(ewald') = OtherThanRho(ewald)
        /\ (threads[t].pc = "idle" /\ threads'[t].pc \notin {"idle", "panicked"})
            => threads'[t].pc =
                    IF threads'[t].op \in DensityOps THEN "precompute"
                    ELSE "body"
        /\ threads'[t].pc \in {"density", "swapped"}
            => threads[t].pc \in {"precompute", "density", "swapped"}]_vars

(* C26 witness: an update is returning after it changed rho, by the change
   a move_particles_cost left after its precompute, in a call that ran no
   precompute. *)
C26_Witness ==
    \E t \in Threads :
        /\ threads[t].op = "update"
        /\ threads[t].pc = "return"
        /\ ewald.previous_cell # None
        /\ ewald.rho # threads[t].start.rho

----------------------------------------------------------------------------
(* the thread t holds a guard of the lock *)
HoldsGuard(t) == lock.writer = t \/ t \in lock.readers

(* C27: no entry point asks for the guard while it holds it, and each
   drops its guard as it returns: a thread holds a guard exactly while it
   is in a call, a thread in a call can always take its next step, every
   call that got its guard ends (returns, or fails and unwinds), and the
   lock is free again and again for the calls that wait for it. *)
C27_CallsReturn ==
    /\ [](\A t \in Threads :
            /\ InBody(t) <=> HoldsGuard(t)
            /\ ~(lock.writer = t /\ t \in lock.readers)
            /\ InBody(t) => ENABLED ThreadStep(t))
    /\ [][\A t \in Threads :
            (~HoldsGuard(t) /\ HoldsGuard(t)') => threads[t].pc = "idle"]_vars
    /\ \A t \in Threads : InBody(t) ~> ~InBody(t)
    /\ []<>(lock = Unlocked)

(* C27 witness: every thread has made calls, all the calls allowed were
   made and have returned, no guard is held and none failed. *)
C27_Witness ==
    /\ lock = Unlocked
    /\ ~poisoned
    /\ TotalCalls = MaxCalls
    /\ \A t \in Threads : threads[t].pc = "idle" /\ threads[t].calls > 0

----------------------------------------------------------------------------
(* C28: in kspace_virial rho and fourier_phases are complete before the
   parallel map starts, no task writes the engine (expfactors,
   fourier_phases, rho, delta_rho) or the system, each task only returns
   its own matrix, and whatever the interleaving and the worker that ran
   each task, the sum of the matrices is the sequential sum over k-points
   and particles. *)
C28_ParallelVirialIsSequentialSum ==
    /\ []((RegionOpen /\ pending.done = << >>) =>
            \E s \in {pending.system} :
                /\ ewald.fourier_phases = BuildPhases(s.cell, s.pos, ewald.kmax)
                /\ ewald.rho = FourierDensity(ewald.kmax, s))
    /\ [][RegionOpen =>
            /\ ewald' = ewald
            /\ pending'.system = pending.system
            /\ \A task \in DOMAIN pending.done :
                   pending'.done[task] = pending.done[task]]_vars
    /\ []((last.op = "kspace_virial" /\ last.ok) =>
            last.value = KspaceVirial(ewald, last.system).value)

(* C28 witness: two workers are each half way through their own plane of
   k-points at the same time, each with a matrix of its own that is not
   zero. *)
C28_Witness ==
    /\ RegionOpen
    /\ \E v, w \in Threads :
        /\ v # w
        /\ \A u \in {v, w} :
            /\ threads[u].pc = "body"
            /\ threads[u].arg[2] \in 1..(ewald.kmax - 1)
            /\ threads[u].value # MZero

----------------------------------------------------------------------------
(* the cell the call c gave to precompute, if it gave one *)
CellOf(c) ==
    IF c.op = "precompute" THEN <<c.value>>
    ELSE IF c.op \in {"energy", "forces", "virial", "move_particles_cost",
                      "density_fft"}
    THEN <<c.system.cell>>
    ELSE << >>

(* C29: a rejected cell leaves the cache untouched and is never recorded:
   a call made with an infinite or triclinic cell fails, previous_cell,
   kmax2 and expfactors are after it what they were before it, and in every
   state previous_cell is absent or an orthorhombic cell. *)
C29_RejectedCellNotRecorded ==
    /\ [](ewald.previous_cell # None =>
            ewald.previous_cell[1].shape = "Orthorhombic")
    /\ [][\A cell \in {CellOf(last')[i] : i \in DOMAIN CellOf(last')} :
            cell.shape # "Orthorhombic" =>
                /\ ~last'.ok
                /\ ewald'.previous_cell = ewald.previous_cell
                /\ ewald'.kmax2 = ewald.kmax2
                /\ ewald'.expfactors = ewald.expfactors]_vars

(* C29 witness: a call with a triclinic or infinite cell has failed on an
   engine whose cache was filled for an orthorhombic cell. *)
C29_Witness ==
    /\ CellOf(last) # << >>
    /\ CellOf(last)[1].shape # "Orthorhombic"
    /\ ~last.ok
    /\ ~poisoned
    /\ ewald.previous_cell # None
    /\ \E ik \in DOMAIN ewald.expfactors : ewald.expfactors[ik] # ZeroFactor

----------------------------------------------------------------------------
(* C30: history independence: with rc, kmax, alpha and the restriction as
   they are, a call of energy, forces, virial or move_particles_cost returns
   when the same call on an engine that was never used returns, and returns
   the same value, whatever calls came before it: moves that were costed
   and never committed, updates, evaluations of other cells. *)
C30_HistoryIndependence ==
    last.op \in Queries \cup {"move_particles_cost"} =>
        \E e \in {CleanEngine(ewald)} :
        \E fresh \in {BodyOf(last, e)} :
            /\ last.ok = fresh.ok
            /\ last.ok => last.value = fresh.value

(* C30 witness: an evaluation has returned on an engine that still holds
   the delta_rho of a move costed on another system. *)
C30_Witness ==
    /\ last.op \in Queries
    /\ last.ok
    /\ \E ik \in Idx3(ewald.kmax) : ewald.delta_rho[ik] # CZero
    /\ \A t \in Trials :
        last.system \in {t[1], Moved(t[1], t[2].idxes, t[2].newpos)}
            => ~IsPending(ewald, t)
====
